---- MODULE Spec2Model ----
(***************************************************************************)
(* A model of the AURA backend's connection graph: the user_swipes store   *)
(* (dbService, src/src/app.js 807-1049), the swipe and accept-request      *)
(* controllers, the points ledger they call (orchidDbService) and the      *)
(* feed aggregator (feedService).                                          *)
(*                                                                         *)
(* A step of the model is one awaited database or API operation together   *)
(* with the synchronous JavaScript that follows it up to the next await:   *)
(* Node runs that code without interleaving.                               *)
(*                                                                         *)
(* Not modelled: created_at / updated_at of a swipe row (no modelled       *)
(* operation reads them to decide anything), and I/O failures of the       *)
(* swipe database (every fid of the model is a registered user, so the     *)
(* foreign keys of user_swipes are satisfied).                             *)
(***************************************************************************)
EXTENDS Integers, Sequences, FiniteSets, TLC

\* Number of registered users (fids 1..NumUsers).
NumUsers == 3

Fids == 1..NumUsers

\* The values the 'action' argument of a swipe may take: the two valid
\* kinds and one value that is neither.
SwipeInputs == {"like", "reject", "superlike"}

VARIABLES
    user_swipes,   \* the rows of table user_swipes
    lastKind,      \* history: kind of the last recordSwipe completed per ordered pair
    reissued,      \* history: the last recordSwipe repeated the kind last completed for its pair
    scores,        \* the rows of table scores of the points database
    point_events,  \* the rows of table point_events of the points database
    req,           \* the HTTP requests in flight: per slot, the handler's position and locals
    started,       \* number of HTTP requests (SpecFeed: of recordSwipe calls) started so far
    feed,          \* the feed request in flight: getConnectedUsersFeed's position and locals
    rd,            \* the dbService read call in flight: its position, locals and result
    personas,      \* the rows of table personas
    rank,          \* the matchingService call in flight: its arguments and result
    now,           \* Date.now() of the server process, in milliseconds
    notificationCache,  \* the Map notificationCache: entries [key, timestamp]
    notified,      \* the sendNotification calls: counters, last result, history of hand-overs
    castFetch      \* the fetchAllUserCasts call in flight: its position and locals

vars ==
    <<user_swipes, lastKind, reissued, scores, point_events, req, started, feed, rd,
      personas, rank, now, notificationCache, notified, castFetch>>

storeVars == <<user_swipes, lastKind, reissued>>
pointsVars == <<scores, point_events>>
rankVars == <<personas, rank>>
serviceVars == <<now, notificationCache, notified, castFetch>>

----------------------------------------------------------------------------
(* Table user_swipes.  A row is [id, user_fid, target_fid, action].  The   *)
(* id is gen_random_uuid(): modelled as (user, target, k) with k the       *)
(* number of rows the pair already has, which is fresh whenever a row is   *)
(* inserted.                                                               *)

ConflictRows(rows, userFid, targetFid) ==
    {r \in rows : r.user_fid = userFid /\ r.target_fid = targetFid}

NewSwipeRow(rows, userFid, targetFid, action) ==
    [id |-> <<userFid, targetFid, Cardinality(ConflictRows(rows, userFid, targetFid))>>,
     user_fid |-> userFid, target_fid |-> targetFid, action |-> action]

\* Mutant: a plain INSERT, the conflict target ignored.
UpsertInsertOnly(rows, userFid, targetFid, action) ==
    rows \cup {NewSwipeRow(rows, userFid, targetFid, action)}

\* Mutant: ignoreDuplicates: true (ON CONFLICT DO NOTHING).
UpsertIgnoreDuplicates(rows, userFid, targetFid, action) ==
    IF ConflictRows(rows, userFid, targetFid) # {}
    THEN rows
    ELSE rows \cup {NewSwipeRow(rows, userFid, targetFid, action)}

\* Mutant: a hand-made upsert that deletes the conflicting row and then
\* skips the insert.
UpsertDeleteOnConflict(rows, userFid, targetFid, action) ==
    IF ConflictRows(rows, userFid, targetFid) # {}
    THEN rows \ ConflictRows(rows, userFid, targetFid)
    ELSE rows \cup {NewSwipeRow(rows, userFid, targetFid, action)}

\* .upsert({...}, {onConflict: 'user_fid,target_fid', ignoreDuplicates: false})
Upsert(rows, userFid, targetFid, action) ==
    IF ConflictRows(rows, userFid, targetFid) # {}
    THEN {IF r \in ConflictRows(rows, userFid, targetFid)
          THEN [r EXCEPT !.action = action]
          ELSE r : r \in rows}
    ELSE rows \cup {NewSwipeRow(rows, userFid, targetFid, action)}

\* .select().single() on the rows the upsert wrote: an error unless it is one row.
SingleRow(after, userFid, targetFid) ==
    LET data == ConflictRows(after, userFid, targetFid)
    IN  IF Cardinality(data) = 1
        THEN [ok |-> TRUE, error |-> "", rows |-> after, data |-> data]
        ELSE [ok |-> FALSE,
              error |-> "Failed to record swipe: JSON object requested, multiple (or no) rows returned",
              rows |-> after, data |-> {}]

\* Mutant: the validation of recordSwipe left out.
recordSwipeNoValidation(rows, userFid, targetFid, action) ==
    SingleRow(Upsert(rows, userFid, targetFid, action), userFid, targetFid)

\* dbService.recordSwipe against the table 'rows': the error it throws, or
\* the table after the upsert and the row(s) .select().single() returns.
recordSwipe(rows, userFid, targetFid, action) ==
    IF action \notin {"like", "reject"}
    THEN [ok |-> FALSE,
          error |-> "Failed to record swipe: Action must be either like or reject",
          rows |-> rows, data |-> {}]
    ELSE IF userFid = targetFid
    THEN [ok |-> FALSE,
          error |-> "Failed to record swipe: User cannot swipe on themselves",
          rows |-> rows, data |-> {}]
    ELSE SingleRow(Upsert(rows, userFid, targetFid, action), userFid, targetFid)

----------------------------------------------------------------------------
(* The queries of the read operations, each one SELECT.                    *)

\* .eq('user_fid', userFid).eq('action', 'like'), the target_fid column
QueryLikedBy(rows, userFid) ==
    {r.target_fid : r \in {x \in rows : x.user_fid = userFid /\ x.action = "like"}}

\* .eq('target_fid', userFid).eq('action', 'like'), the user_fid column
QueryLikersOf(rows, userFid) ==
    {r.user_fid : r \in {x \in rows : x.target_fid = userFid /\ x.action = "like"}}

\* Mutant: the .in('user_fid', likedFids) filter left out.
QueryMutualLikesNoIn(rows, likedFids, userFid) ==
    QueryLikersOf(rows, userFid)

\* .in('user_fid', likedFids).eq('target_fid', userFid).eq('action', 'like')
QueryMutualLikes(rows, likedFids, userFid) ==
    {r.user_fid : r \in {x \in rows : /\ x.user_fid \in likedFids
                                      /\ x.target_fid = userFid
                                      /\ x.action = "like"}}

\* .eq('user_fid', userFid).eq('action', 'like').in('target_fid', likedByFids)
QueryMyLikesAmong(rows, userFid, likedByFids) ==
    {r.target_fid : r \in {x \in rows : /\ x.user_fid = userFid
                                        /\ x.action = "like"
                                        /\ x.target_fid \in likedByFids}}

\* Mutant: the filter is .eq('action', 'reject').
QueryHasRejected(rows, userFid1, userFid2) ==
    {x \in rows : /\ x.user_fid = userFid1
                  /\ x.target_fid = userFid2
                  /\ x.action = "reject"} # {}

\* Mutant: the .eq('action', 'like') filter left out.
QueryHasLikedAnyAction(rows, userFid1, userFid2) ==
    {x \in rows : x.user_fid = userFid1 /\ x.target_fid = userFid2} # {}

\* .eq('user_fid', a).eq('target_fid', b).eq('action', 'like').limit(1): a row came back
QueryHasLiked(rows, userFid1, userFid2) ==
    {x \in rows : /\ x.user_fid = userFid1
                  /\ x.target_fid = userFid2
                  /\ x.action = "like"} # {}

----------------------------------------------------------------------------
(* The read operations on one snapshot of the table (no write between      *)
(* their queries).  Each gives the set of fids of the array it returns.    *)

getUserMatches(rows, userFid) ==
    LET likedFids == QueryLikedBy(rows, userFid)
    IN  IF likedFids = {} THEN {}
        ELSE QueryMutualLikes(rows, likedFids, userFid)

\* Mutant: the matched users are not filtered out.
getRequestsSentNoFilter(rows, userFid) ==
    QueryLikedBy(rows, userFid)

getRequestsSent(rows, userFid) ==
    LET likedFids == QueryLikedBy(rows, userFid)
    IN  IF likedFids = {} THEN {}
        ELSE {f \in likedFids : f \notin getUserMatches(rows, userFid)}

\* Mutant: the filter of getRequestsReceived keeps the users liked back.
FilterPendingKeepLikedBack(likedByFids, myLikedFids, matchedFids) ==
    {f \in likedByFids : f \notin matchedFids \/ f \in myLikedFids}

\* receivedLikes.filter(!myLikedFids.has(fid) && !matchedFidsSet.has(fid))
FilterPending(likedByFids, myLikedFids, matchedFids) ==
    {f \in likedByFids : f \notin myLikedFids /\ f \notin matchedFids}

\* Mutant: the early return also taken when the user has liked nobody.
getRequestsReceivedEarlyReturn(rows, userFid) ==
    LET likedByFids == QueryLikersOf(rows, userFid)
    IN  IF likedByFids = {} \/ QueryLikedBy(rows, userFid) = {} THEN {}
        ELSE FilterPending(likedByFids,
                           QueryMyLikesAmong(rows, userFid, likedByFids),
                           getUserMatches(rows, userFid))

getRequestsReceived(rows, userFid) ==
    LET likedByFids == QueryLikersOf(rows, userFid)
    IN  IF likedByFids = {} THEN {}
        ELSE FilterPending(likedByFids,
                           QueryMyLikesAmong(rows, userFid, likedByFids),
                           getUserMatches(rows, userFid))

checkIfMatched(rows, userFid1, userFid2) ==
    QueryHasLiked(rows, userFid1, userFid2) /\ QueryHasLiked(rows, userFid2, userFid1)

----------------------------------------------------------------------------
(* The points database (orchidDbService).  Table profiles is never written *)
(* by this program: users 1 and 2 have a profile, the others have none.    *)
(* A scores row is [profile_id, total_points]; a point_events row is       *)
(* [profile_id, rule_key, delta, source_id] (its autoincrement id, its     *)
(* evidence and its created_at are not modelled).  The client is           *)
(* configured and the database answers (no I/O error).                     *)

ProfiledFids == {1, 2}

\* Points the swipe controller deducts for a like.
SwipePoints == 100

\* Points the accept controller rewards to each user.
AcceptPoints == 200

\* total_points of user 1 at the start; user 2 has a profile and no scores row.
InitPoints == 100

\* SELECT id FROM profiles WHERE farcaster_fid = ?: the id, or 0 for null.
getProfileIdByFid(fid) ==
    IF fid \in ProfiledFids THEN NumUsers + fid ELSE 0

\* SELECT total_points FROM scores WHERE profile_id = ?
ScoreRows(rows, profileId) == {r \in rows : r.profile_id = profileId}

getCurrentPoints(rows, fid) ==
    LET profileId == getProfileIdByFid(fid)
    IN  IF profileId = 0 THEN 0
        ELSE IF ScoreRows(rows, profileId) = {} THEN 0
        ELSE (CHOOSE r \in ScoreRows(rows, profileId) : TRUE).total_points

\* Mutant: the unique index idx_point_events_rule_source left out.
InsertPointEventNoIndex(events, profileId, ruleKey, delta, sourceId) ==
    [ok |-> TRUE,
     events |-> events \cup {[profile_id |-> profileId, rule_key |-> ruleKey,
                              delta |-> delta, source_id |-> sourceId]}]

\* INSERT INTO point_events ...: fails on the unique index (rule_key, source_id).
InsertPointEvent(events, profileId, ruleKey, delta, sourceId) ==
    IF \E e \in events : e.rule_key = ruleKey /\ e.source_id = sourceId
    THEN [ok |-> FALSE, events |-> events]
    ELSE [ok |-> TRUE,
          events |-> events \cup {[profile_id |-> profileId, rule_key |-> ruleKey,
                                   delta |-> delta, source_id |-> sourceId]}]

\* INSERT INTO scores ... ON CONFLICT(profile_id) DO UPDATE SET total_points = total_points + ?
UpsertScore(rows, profileId, delta) ==
    IF ScoreRows(rows, profileId) # {}
    THEN {IF r.profile_id = profileId
          THEN [r EXCEPT !.total_points = r.total_points + delta]
          ELSE r : r \in rows}
    ELSE rows \cup {[profile_id |-> profileId, total_points |-> delta]}

\* Mutant: the balance is not compared with the amount.
deductPointsCheckNoBalance(rows, fid, points) ==
    IF getProfileIdByFid(fid) = 0 THEN "Profile not found" ELSE ""

\* The balance check of deductPoints: the error it throws before any write, or "".
deductPointsCheck(rows, fid, points) ==
    IF getProfileIdByFid(fid) = 0 THEN "Profile not found"
    ELSE IF getCurrentPoints(rows, fid) < points THEN "Insufficient points"
    ELSE ""

\* The sourceId strings of the two controllers.
SwipeSourceId(swipeId, userFid, targetFid) == <<"swipe", swipeId, userFid, targetFid>>

ConnectionSourceId(swipeId, userFid, targetFid) == <<"connection", swipeId, userFid, targetFid>>

----------------------------------------------------------------------------
(* The HTTP requests in flight.  NumProcs slots each run one handler at a  *)
(* time; at most MaxRequests requests are started in a behaviour.          *)

NumProcs == 2

MaxRequests == 3

Procs == 1..NumProcs

NoResp == [status |-> 0, error |-> "", message |-> "", isMatch |-> FALSE,
           swipe |-> {}, points |-> {}]

\* A slot: the handler (op), its position (pc), its arguments, its locals and,
\* once pc = "done", its response.  pendingAtCall and clean are history:
\* whether targetFid was in getRequestsReceived(userFid) when acceptRequest was
\* called, and whether no other request has changed user_swipes since.
IdleReq == [op |-> "none", pc |-> "idle", userFid |-> 0, targetFid |-> 0, action |-> "",
            recv |-> {}, liked |-> {}, matched |-> {}, has1 |-> FALSE, isMatch |-> FALSE,
            swipe |-> {}, prev |-> 0, prevTarget |-> 0, rwUser |-> "", rwTarget |-> "", rewards |-> {},
            pendingAtCall |-> FALSE, clean |-> TRUE, resp |-> NoResp]

\* res.status(...).json(...): the slot once the handler has answered.
Respond(r, status, error, message, isMatch, swipe, points) ==
    [IdleReq EXCEPT !.op = r.op, !.pc = "done", !.userFid = r.userFid,
                    !.targetFid = r.targetFid, !.action = r.action,
                    !.resp = [status |-> status, error |-> error, message |-> message,
                              isMatch |-> isMatch, swipe |-> swipe, points |-> points]]

\* The positions of acceptRequest inside its call of getRequestsReceived.
AcceptReadPhase == {"received", "um_likes", "um_mutual", "my_likes"}

\* History: a write of another request reaches a slot that is reading.
Disturbed(r) ==
    IF r.op = "accept" /\ r.pc \in AcceptReadPhase THEN [r EXCEPT !.clean = FALSE] ELSE r

\* Slot p becomes r; the other slots are as they were (written = FALSE) or
\* have seen user_swipes change under them (written = TRUE).
SetReq(p, r, written) ==
    req' = [q \in Procs |-> IF q = p THEN r
                            ELSE IF written THEN Disturbed(req[q]) ELSE req[q]]

CanStart(p) == req[p].pc \in {"idle", "done"} /\ started < MaxRequests

\* The upsert step of a handler: dbService.recordSwipe on the current table.
RecordSwipeStep(userFid, targetFid, action) ==
    LET res == recordSwipe(user_swipes, userFid, targetFid, action)
    IN  /\ user_swipes' = res.rows
        /\ lastKind' = IF res.ok
                       THEN [lastKind EXCEPT ![<<userFid, targetFid>>] = action]
                       ELSE lastKind
        /\ reissued' = (res.ok /\ lastKind[<<userFid, targetFid>>] = action)

----------------------------------------------------------------------------
(* The swipe controller, POST /api/v1/swipe.                               *)

\* The id of the one row a recordSwipe returned.
RowId(data) == (CHOOSE r \in data : TRUE).id

\* Mutant: the controller does not check that the two fids differ.
swipeRequestErrorNoSelfCheck(userFid, targetFid, action) ==
    IF action \notin {"like", "reject"}
    THEN "action must be either like or reject"
    ELSE ""

\* The 400 answers of the swipe controller (both fids and the action are present
\* and the fids are numbers): the error, or "".
swipeRequestError(userFid, targetFid, action) ==
    IF action \notin {"like", "reject"}
    THEN "action must be either like or reject"
    ELSE IF userFid = targetFid
    THEN "User cannot swipe on themselves"
    ELSE ""

SwipeBegin(p, userFid, targetFid, action) ==
    /\ CanStart(p)
    /\ started' = started + 1
    /\ LET r   == [IdleReq EXCEPT !.op = "swipe", !.userFid = userFid,
                                  !.targetFid = targetFid, !.action = action]
           err == swipeRequestError(userFid, targetFid, action)
       IN  IF err # ""
           THEN SetReq(p, Respond(r, 400, err, "", FALSE, {}, {}), FALSE)
           ELSE SetReq(p, [r EXCEPT !.pc = "upsert"], FALSE)
    /\ UNCHANGED <<rd, feed, storeVars, pointsVars, rankVars, serviceVars>>

\* await dbService.recordSwipe(...); a throw is answered by the error handler.
SwipeUpsert(p) ==
    LET r   == req[p]
        res == recordSwipe(user_swipes, r.userFid, r.targetFid, r.action)
    IN  /\ r.op = "swipe" /\ r.pc = "upsert"
        /\ RecordSwipeStep(r.userFid, r.targetFid, r.action)
        /\ SetReq(p,
                  IF ~res.ok THEN Respond(r, 500, res.error, "", FALSE, {}, {})
                  ELSE IF r.action = "like"
                  THEN [r EXCEPT !.pc = "deduct_read", !.swipe = res.data]
                  ELSE Respond(r, 200, "", "Swipe recorded: reject", FALSE, res.data, {}),
                  res.rows # user_swipes)
        /\ UNCHANGED <<rd, feed, pointsVars, started, rankVars, serviceVars>>

\* deductPoints up to its balance check: the profile id and the balance are read.
SwipeDeductRead(p) ==
    LET r == req[p]
    IN  /\ r.op = "swipe" /\ r.pc = "deduct_read"
        /\ SetReq(p,
                  IF deductPointsCheck(scores, r.userFid, SwipePoints) # ""
                  THEN [r EXCEPT !.pc = "check1"]
                  ELSE [r EXCEPT !.pc = "deduct_insert",
                                 !.prev = getCurrentPoints(scores, r.userFid)],
                  FALSE)
        /\ UNCHANGED <<rd, feed, storeVars, pointsVars, started, rankVars, serviceVars>>

\* deductPoints: INSERT INTO point_events; a throw is caught by the controller.
SwipeDeductInsert(p) ==
    LET r   == req[p]
        ins == InsertPointEvent(point_events, getProfileIdByFid(r.userFid),
                                "connection_request_sent", 0 - SwipePoints,
                                SwipeSourceId(RowId(r.swipe), r.userFid, r.targetFid))
    IN  /\ r.op = "swipe" /\ r.pc = "deduct_insert"
        /\ point_events' = ins.events
        /\ SetReq(p,
                  IF ins.ok THEN [r EXCEPT !.pc = "deduct_update"]
                  ELSE [r EXCEPT !.pc = "check1", !.prev = 0],
                  FALSE)
        /\ UNCHANGED <<rd, feed, storeVars, scores, started, rankVars, serviceVars>>

\* deductPoints: the upsert of scores, and its return value.
SwipeDeductUpdate(p) ==
    LET r == req[p]
    IN  /\ r.op = "swipe" /\ r.pc = "deduct_update"
        /\ scores' = UpsertScore(scores, getProfileIdByFid(r.userFid), 0 - SwipePoints)
        /\ SetReq(p,
                  [r EXCEPT !.pc = "check1", !.prev = 0,
                            !.rewards = {[fid |-> r.userFid, points |-> SwipePoints,
                                          previousBalance |-> r.prev,
                                          newBalance |-> r.prev - SwipePoints]}],
                  FALSE)
        /\ UNCHANGED <<rd, feed, storeVars, point_events, started, rankVars, serviceVars>>

\* checkIfMatched, first query.
SwipeCheck1(p) ==
    LET r == req[p]
    IN  /\ r.op = "swipe" /\ r.pc = "check1"
        /\ SetReq(p, [r EXCEPT !.pc = "check2",
                               !.has1 = QueryHasLiked(user_swipes, r.userFid, r.targetFid)],
                  FALSE)
        /\ UNCHANGED <<rd, feed, storeVars, pointsVars, started, rankVars, serviceVars>>

\* checkIfMatched, second query, and the answer.
SwipeCheck2(p) ==
    LET r == req[p]
    IN  /\ r.op = "swipe" /\ r.pc = "check2"
        /\ SetReq(p,
                  Respond(r, 200, "", "Swipe recorded: like",
                          r.has1 /\ QueryHasLiked(user_swipes, r.targetFid, r.userFid),
                          r.swipe, r.rewards),
                  FALSE)
        /\ UNCHANGED <<rd, feed, storeVars, pointsVars, started, rankVars, serviceVars>>

----------------------------------------------------------------------------
(* The accept controller, POST /api/v1/accept-request.                     *)

AcceptInputs == {"accept", "reject", "block"}

NoPendingRequest == "No pending request found from this user"

\* The 400 answers of the accept controller before any query: the error, or "".
acceptRequestError(userFid, targetFid, action) ==
    IF action \notin {"accept", "reject"}
    THEN "action must be either accept or reject"
    ELSE IF userFid = targetFid
    THEN "User cannot handle request from themselves"
    ELSE ""

AcceptBegin(p, userFid, targetFid, action) ==
    /\ CanStart(p)
    /\ started' = started + 1
    /\ LET r   == [IdleReq EXCEPT !.op = "accept", !.userFid = userFid,
                                  !.targetFid = targetFid, !.action = action]
           err == acceptRequestError(userFid, targetFid, action)
       IN  IF err # ""
           THEN SetReq(p, Respond(r, 400, err, "", FALSE, {}, {}), FALSE)
           ELSE SetReq(p, [r EXCEPT !.pc = "received",
                                    !.pendingAtCall =
                                        (targetFid \in getRequestsReceived(user_swipes, userFid))],
                       FALSE)
    /\ UNCHANGED <<rd, feed, storeVars, pointsVars, rankVars, serviceVars>>

\* getRequestsReceived, first query: who has liked userFid.  Nobody: it returns [].
AcceptReceived(p) ==
    LET r           == req[p]
        likedByFids == QueryLikersOf(user_swipes, r.userFid)
    IN  /\ r.op = "accept" /\ r.pc = "received"
        /\ SetReq(p,
                  IF likedByFids = {}
                  THEN Respond(r, 400, NoPendingRequest, "", FALSE, {}, {})
                  ELSE [r EXCEPT !.pc = "um_likes", !.recv = likedByFids],
                  FALSE)
        /\ UNCHANGED <<rd, feed, storeVars, pointsVars, started, rankVars, serviceVars>>

\* getUserMatches inside getRequestsReceived, first query.
AcceptUmLikes(p) ==
    LET r         == req[p]
        likedFids == QueryLikedBy(user_swipes, r.userFid)
    IN  /\ r.op = "accept" /\ r.pc = "um_likes"
        /\ SetReq(p,
                  IF likedFids = {}
                  THEN [r EXCEPT !.pc = "my_likes", !.matched = {}]
                  ELSE [r EXCEPT !.pc = "um_mutual", !.liked = likedFids],
                  FALSE)
        /\ UNCHANGED <<rd, feed, storeVars, pointsVars, started, rankVars, serviceVars>>

\* getUserMatches inside getRequestsReceived, second query.
AcceptUmMutual(p) ==
    LET r == req[p]
    IN  /\ r.op = "accept" /\ r.pc = "um_mutual"
        /\ SetReq(p,
                  [r EXCEPT !.pc = "my_likes", !.liked = {},
                            !.matched = QueryMutualLikes(user_swipes, r.liked, r.userFid)],
                  FALSE)
        /\ UNCHANGED <<rd, feed, storeVars, pointsVars, started, rankVars, serviceVars>>

\* Mutant: the controller handles the request whether or not it is pending.
requestExistsAlways(requestsReceived, targetFid) == TRUE

\* requestsReceived.some((req) => req.fid === targetFidNumber)
requestExists(requestsReceived, targetFid) == targetFid \in requestsReceived

\* getRequestsReceived, last query and filter; then the controller's check.
AcceptMyLikes(p) ==
    LET r           == req[p]
        myLikedFids == QueryMyLikesAmong(user_swipes, r.userFid, r.recv)
        pending     == FilterPending(r.recv, myLikedFids, r.matched)
    IN  /\ r.op = "accept" /\ r.pc = "my_likes"
        /\ SetReq(p,
                  IF requestExists(pending, r.targetFid)
                  THEN [r EXCEPT !.pc = "upsert", !.recv = {}, !.matched = {}]
                  ELSE Respond(r, 400, NoPendingRequest, "", FALSE, {}, {}),
                  FALSE)
        /\ UNCHANGED <<rd, feed, storeVars, pointsVars, started, rankVars, serviceVars>>

\* const swipeAction = action === 'accept' ? 'like' : 'reject'
swipeAction(action) == IF action = "accept" THEN "like" ELSE "reject"

\* await dbService.recordSwipe(userFid, targetFid, swipeAction); a reject is answered here.
AcceptUpsert(p) ==
    LET r   == req[p]
        res == recordSwipe(user_swipes, r.userFid, r.targetFid, swipeAction(r.action))
    IN  /\ r.op = "accept" /\ r.pc = "upsert"
        /\ RecordSwipeStep(r.userFid, r.targetFid, swipeAction(r.action))
        /\ SetReq(p,
                  IF ~res.ok THEN Respond(r, 500, res.error, "", FALSE, {}, {})
                  ELSE IF r.action = "accept"
                  THEN [r EXCEPT !.pc = "check1", !.swipe = res.data]
                  ELSE Respond(r, 200, "", "Request rejected.", FALSE, res.data, {}),
                  res.rows # user_swipes)
        /\ UNCHANGED <<rd, feed, pointsVars, started, rankVars, serviceVars>>

\* checkIfMatched, first query.
AcceptCheck1(p) ==
    LET r == req[p]
    IN  /\ r.op = "accept" /\ r.pc = "check1"
        /\ SetReq(p, [r EXCEPT !.pc = "check2",
                               !.has1 = QueryHasLiked(user_swipes, r.userFid, r.targetFid)],
                  FALSE)
        /\ UNCHANGED <<rd, feed, storeVars, pointsVars, started, rankVars, serviceVars>>

\* checkIfMatched, second query; the two addPoints calls start.
AcceptCheck2(p) ==
    LET r == req[p]
    IN  /\ r.op = "accept" /\ r.pc = "check2"
        /\ SetReq(p,
                  [r EXCEPT !.pc = "rewards", !.has1 = FALSE,
                            !.isMatch = (r.has1 /\ QueryHasLiked(user_swipes, r.targetFid, r.userFid)),
                            !.rwUser = "read", !.rwTarget = "read"],
                  FALSE)
        /\ UNCHANGED <<rd, feed, storeVars, pointsVars, started, rankVars, serviceVars>>

\* addPoints: the state of one call after its next database operation.  It reads
\* the profile id and the balance, inserts the point event, then upserts scores;
\* a throw is turned into null by the controller's .catch.
RewardNext(state, profileId, inserted) ==
    CASE state = "read"   -> IF profileId = 0 THEN "failed" ELSE "insert"
      [] state = "insert" -> IF inserted THEN "update" ELSE "failed"
      [] state = "update" -> "ok"

\* One database operation of one of the two addPoints calls under Promise.all
\* (side "user": the accepting user, side "target": the requester); the handler
\* answers when both calls have ended.
AcceptReward(p, side) ==
    LET r     == req[p]
        fid   == IF side = "user" THEN r.userFid ELSE r.targetFid
        state == IF side = "user" THEN r.rwUser ELSE r.rwTarget
        prev  == IF side = "user" THEN r.prev ELSE r.prevTarget
        pid   == getProfileIdByFid(fid)
        ins   == InsertPointEvent(point_events, pid, "connection_request_accepted",
                                  AcceptPoints,
                                  ConnectionSourceId(RowId(r.swipe), r.userFid, r.targetFid))
        next  == RewardNext(state, pid, ins.ok)
        read  == IF state = "read" /\ pid # 0 THEN getCurrentPoints(scores, fid) ELSE prev
        r2    == [r EXCEPT !.rwUser = IF side = "user" THEN next ELSE @,
                           !.rwTarget = IF side = "target" THEN next ELSE @,
                           !.prev = IF side = "user" THEN read ELSE @,
                           !.prevTarget = IF side = "target" THEN read ELSE @,
                           !.rewards = IF state = "update"
                                       THEN @ \cup {[fid |-> fid, points |-> AcceptPoints,
                                                     previousBalance |-> prev,
                                                     newBalance |-> prev + AcceptPoints]}
                                       ELSE @]
    IN  /\ r.op = "accept" /\ r.pc = "rewards"
        /\ state \in {"read", "insert", "update"}
        /\ point_events' = IF state = "insert" THEN ins.events ELSE point_events
        /\ scores' = IF state = "update" THEN UpsertScore(scores, pid, AcceptPoints) ELSE scores
        /\ SetReq(p,
                  IF r2.rwUser \in {"ok", "failed"} /\ r2.rwTarget \in {"ok", "failed"}
                  THEN Respond(r, 200, "",
                               IF r.isMatch THEN "You are now connected!"
                               ELSE "Request accepted. Waiting for their response.",
                               r.isMatch, r.swipe, r2.rewards)
                  ELSE r2,
                  FALSE)
        /\ UNCHANGED <<rd, feed, storeVars, started, rankVars, serviceVars>>

----------------------------------------------------------------------------
(* feedService.  A cast of the external source is modelled by the fields   *)
(* the aggregator reads to select and order casts: author.fid, hash,       *)
(* thread_hash, timestamp and created_at; 0 stands for a field that is     *)
(* absent (for a timestamp: absent or not a date), and by the engagement   *)
(* fields the counters pass rewrites: reactions and replies.               *)

\* const MAX_FIDS_PER_CALL = 100, scaled down so that users with more
\* connections than one call carries exist among NumUsers users.
MAX_FIDS_PER_CALL == 1

MaxCasts == 1    \* casts in the answer of one call of the source
MaxHash == 1     \* hashes are 1..MaxHash
MaxTs == 1       \* dates are 1..MaxTs
MaxLimit == 2    \* page sizes asked are 1..MaxLimit
MaxOffset == 1   \* offsets carried by the cursors asked are 0..MaxOffset

\* The values of the engagement fields, by type; n is the value of a number or
\* the length of an array.
Undefined == [type |-> "undefined", n |-> 0]
Null == [type |-> "null", n |-> 0]
Number(n) == [type |-> "number", n |-> n]
Array(n) == [type |-> "array", n |-> n]

\* cast.reactions and cast.replies: absent ("undefined", standing for every
\* falsy value), an object, for replies an array, or a number other than 0
\* (standing for every truthy value that is not an object).
NoReactions ==
    [type |-> "undefined", likes_count |-> Undefined, likes |-> Undefined,
     recasts_count |-> Undefined, recasts |-> Undefined]
NoReplies == [type |-> "undefined", count |-> Undefined, length |-> 0]

Casts ==
    [author : 0..NumUsers, hash : 0..MaxHash, thread_hash : 0..MaxHash,
     timestamp : 0..MaxTs, created_at : 0..MaxTs,
     reactions : {NoReactions}, replies : {NoReplies}]

SeqsUpTo(S, n) == UNION {[1..k -> S] : k \in 0..n}

Range(seq) == {seq[i] : i \in DOMAIN seq}

\* What one call of the source may do: fail (network error, !response.ok), or
\* answer any list of casts, whoever their authors are.
FetchOutcomes ==
    {[ok |-> FALSE, casts |-> <<>>]}
        \cup {[ok |-> TRUE, casts |-> c] : c \in SeqsUpTo(Casts, MaxCasts)}

\* fetchCastsFromFids(fids, viewerFid): no call for an empty list; a failure throws.
fetchCastsFromFids(fids, outcome) ==
    IF Len(fids) = 0 THEN [ok |-> TRUE, casts |-> <<>>] ELSE outcome

\* new Date(cast.timestamp).getTime(), else new Date(cast.created_at).getTime(), else 0
parseCastTimestamp(cast) ==
    IF cast.timestamp # 0 THEN cast.timestamp
    ELSE IF cast.created_at # 0 THEN cast.created_at
    ELSE 0

\* The number of batches, and batch k: matchedFids.slice(i, i + MAX_FIDS_PER_CALL).
NumBatches(matchedFids) ==
    (Len(matchedFids) + MAX_FIDS_PER_CALL - 1) \div MAX_FIDS_PER_CALL

\* Mutant: every slice starts at 0.
BatchFromStart(matchedFids, k) ==
    SubSeq(matchedFids, 1,
           IF k * MAX_FIDS_PER_CALL < Len(matchedFids)
           THEN k * MAX_FIDS_PER_CALL ELSE Len(matchedFids))

Batch(matchedFids, k) ==
    SubSeq(matchedFids, (k - 1) * MAX_FIDS_PER_CALL + 1,
           IF k * MAX_FIDS_PER_CALL < Len(matchedFids)
           THEN k * MAX_FIDS_PER_CALL ELSE Len(matchedFids))

\* params.fids of one call: fids.slice(0, MAX_FIDS_PER_CALL)
FetchParamsFids(fids) ==
    SubSeq(fids, 1, IF Len(fids) < MAX_FIDS_PER_CALL THEN Len(fids) ELSE MAX_FIDS_PER_CALL)

\* The calls of the source made for matchedFids (not empty), each by the ids
\* it carries: one per batch, or the single call.
FeedCalls(matchedFids) ==
    IF Len(matchedFids) > MAX_FIDS_PER_CALL
    THEN [k \in 1..NumBatches(matchedFids) |-> FetchParamsFids(Batch(matchedFids, k))]
    ELSE <<FetchParamsFids(matchedFids)>>

\* batchResults.forEach(result => allCasts.push(...result.casts)), a failed
\* batch having been replaced by { casts: [] }.
RECURSIVE MergeBatches(_, _, _)
MergeBatches(matchedFids, outcomes, k) ==
    IF k = 0 THEN <<>>
    ELSE LET result == fetchCastsFromFids(Batch(matchedFids, k), outcomes[k])
         IN  MergeBatches(matchedFids, outcomes, k - 1)
                 \o (IF result.ok THEN result.casts ELSE <<>>)

\* Array.prototype.filter
RECURSIVE FilterSeq(_, _)
FilterSeq(seq, keep) ==
    IF seq = <<>> THEN <<>>
    ELSE (IF Head(seq) \in keep THEN <<Head(seq)>> ELSE <<>>) \o FilterSeq(Tail(seq), keep)

\* Mutant: only the casts without author are filtered out.
AuthorizedCastsAnyAuthor(allCasts, matchedFids) ==
    FilterSeq(allCasts, {c \in Range(allCasts) : c.author # 0})

\* allCasts.filter(cast => authorFid && matchedFidsSet.has(authorFid))
AuthorizedCasts(allCasts, matchedFids) ==
    FilterSeq(allCasts, {c \in Range(allCasts) :
                             c.author # 0 /\ c.author \in Range(matchedFids)})

\* allCasts.sort((a, b) => parseCastTimestamp(b) - parseCastTimestamp(a)): a
\* stable sort, newest first.
\* Mutant: the comparator is timestampA - timestampB, oldest first.
RECURSIVE InsertByTimestampAscending(_, _)
InsertByTimestampAscending(sorted, cast) ==
    IF sorted = <<>> THEN <<cast>>
    ELSE IF parseCastTimestamp(Head(sorted)) <= parseCastTimestamp(cast)
    THEN <<Head(sorted)>> \o InsertByTimestampAscending(Tail(sorted), cast)
    ELSE <<cast>> \o sorted

RECURSIVE InsertByTimestamp(_, _)
InsertByTimestamp(sorted, cast) ==
    IF sorted = <<>> THEN <<cast>>
    ELSE IF parseCastTimestamp(Head(sorted)) >= parseCastTimestamp(cast)
    THEN <<Head(sorted)>> \o InsertByTimestamp(Tail(sorted), cast)
    ELSE <<cast>> \o sorted

RECURSIVE SortCasts(_)
SortCasts(allCasts) ==
    IF allCasts = <<>> THEN <<>>
    ELSE InsertByTimestamp(SortCasts(SubSeq(allCasts, 1, Len(allCasts) - 1)),
                           allCasts[Len(allCasts)])

\* const hash = cast.hash || cast.thread_hash
CastHash(cast) == IF cast.hash # 0 THEN cast.hash ELSE cast.thread_hash

\* The filter on seenHashes: a cast without hash, or with a hash already seen, is dropped.
RECURSIVE DedupCasts(_, _)
DedupCasts(allCasts, seenHashes) ==
    IF allCasts = <<>> THEN <<>>
    ELSE LET hash == CastHash(Head(allCasts))
         IN  IF hash = 0 \/ hash \in seenHashes
             THEN DedupCasts(Tail(allCasts), seenHashes)
             ELSE <<Head(allCasts)>> \o DedupCasts(Tail(allCasts), seenHashes \cup {hash})

\* Mutant: the length of the array, when there is one, overwrites the count.
NormalizeCountPreferArray(count, array) ==
    IF array.type = "array" THEN Number(array.n)
    ELSE IF count.type \notin {"undefined", "null"} THEN count
    ELSE Number(0)

\* likes_count, recasts_count: the count of the source when it is neither
\* undefined nor null, else the length of the array, else 0.
NormalizeCount(count, array) ==
    IF count.type \notin {"undefined", "null"} THEN count
    ELSE IF array.type = "array" THEN Number(array.n)
    ELSE Number(0)

\* if (!Array.isArray(x)) x = []
EnsureArray(array) == IF array.type = "array" THEN array ELSE Array(0)

\* The pass over cast.reactions.  An assignment to a property of a value that
\* is not an object is dropped (the module is not in strict mode).
NormalizeReactions(reactions) ==
    IF reactions.type = "undefined"
    THEN [type |-> "object", likes_count |-> Number(0), likes |-> Array(0),
          recasts_count |-> Number(0), recasts |-> Array(0)]
    ELSE IF reactions.type = "object"
    THEN [type |-> "object",
          likes_count |-> NormalizeCount(reactions.likes_count, reactions.likes),
          likes |-> EnsureArray(reactions.likes),
          recasts_count |-> NormalizeCount(reactions.recasts_count, reactions.recasts),
          recasts |-> EnsureArray(reactions.recasts)]
    ELSE reactions

\* The pass over cast.replies.
NormalizeReplies(replies) ==
    CASE replies.type = "undefined" -> [type |-> "object", count |-> Number(0), length |-> 0]
      [] replies.type = "object" ->
             IF replies.count.type \notin {"undefined", "null"} THEN replies
             ELSE [replies EXCEPT !.count = Number(0)]
      [] replies.type = "array" ->
             [type |-> "object", count |-> Number(replies.length), length |-> 0]
      [] OTHER -> replies

\* allCasts.map(cast => ...): the engagement data of every cast
NormalizeEngagement(allCasts) ==
    [i \in DOMAIN allCasts |->
        [allCasts[i] EXCEPT !.reactions = NormalizeReactions(@),
                            !.replies = NormalizeReplies(@)]]

\* The counts an item carries: cast.reactions.likes_count,
\* cast.reactions.recasts_count, cast.replies.count.
LikesCount(cast) ==
    IF cast.reactions.type = "object" THEN cast.reactions.likes_count ELSE Undefined
RecastsCount(cast) ==
    IF cast.reactions.type = "object" THEN cast.reactions.recasts_count ELSE Undefined
RepliesCount(cast) ==
    IF cast.replies.type = "object" THEN cast.replies.count ELSE Undefined

\* Cursors: none (null), a string that does not decode (JSON.parse, or the
\* read of .offset on what it returns, throws), the base64 of JSON without
\* offset, or the base64 of the JSON of an offset.
NoCursor == [kind |-> "none", offset |-> 0]
BadCursor == [kind |-> "undecodable", offset |-> 0]
EncodeCursor(offset) == [kind |-> "offset", offset |-> offset]

NoOffsetCursor == [kind |-> "no_offset", offset |-> 0]

CursorInputs == {NoCursor, BadCursor} \cup {EncodeCursor(o) : o \in 0..MaxOffset}

\* Mutant: the catch of an undecodable cursor leaves the first item out.
StartIndexSkipsFirst(cursor) ==
    IF cursor.kind = "offset" THEN cursor.offset
    ELSE IF cursor.kind = "undecodable" THEN 1 ELSE 0

\* The base64 of JSON whose offset is a string of digits, as a client can
\* build it: {"offset": "1"}.  The string is the sequence of its digits.
TextOffsetCursor(digits) == [kind |-> "text_offset", offset |-> digits]

\* The number a string of digits converts to.
RECURSIVE ToNumber(_)
ToNumber(digits) ==
    IF digits = <<>> THEN 0
    ELSE 10 * ToNumber(SubSeq(digits, 1, Len(digits) - 1)) + digits[Len(digits)]

\* startIndex: cursorData.offset || 0, and 0 when the cursor is null or does
\* not decode; a string of digits stays a string.
StartIndex(cursor) ==
    IF cursor.kind \in {"offset", "text_offset"} THEN cursor.offset ELSE 0

\* startIndex + limit (limit < 10): the sum of two numbers, and the string
\* with the digit of limit appended when startIndex is a string.
EndIndex(cursor, startIndex, limit) ==
    IF cursor.kind = "text_offset" THEN Append(startIndex, limit) ELSE startIndex + limit

\* An index as slice and < read it: a string is converted to its number.
ToInteger(cursor, index) ==
    IF cursor.kind = "text_offset" THEN ToNumber(index) ELSE index

\* JSON.stringify({offset: endIndex, ...}) in base64: the offset keeps its type.
NextCursor(cursor, endIndex) ==
    IF cursor.kind = "text_offset" THEN TextOffsetCursor(endIndex) ELSE EncodeCursor(endIndex)

\* Mutant: the slice takes the item at endIndex too.
SliceInclusive(seq, startIndex, endIndex) ==
    LET last == IF endIndex + 1 < Len(seq) THEN endIndex + 1 ELSE Len(seq)
    IN  IF startIndex >= last THEN <<>> ELSE SubSeq(seq, startIndex + 1, last)

\* allCasts.slice(startIndex, endIndex)
Slice(seq, startIndex, endIndex) ==
    LET last == IF endIndex < Len(seq) THEN endIndex ELSE Len(seq)
    IN  IF startIndex >= last THEN <<>> ELSE SubSeq(seq, startIndex + 1, last)

\* The answer for no matched users.
EmptyFeed ==
    [ok |-> TRUE, error |-> "", casts |-> <<>>, hasMore |-> FALSE, nextCursor |-> NoCursor,
     totalMatchedUsers |-> 0, castsReturned |-> 0, totalCastsAvailable |-> 0,
     matchedUsersCount |-> 0, apiCallsMade |-> 0, batchesUsed |-> 0,
     totalCastsFetched |-> 0]

\* The only fetch of a single batch has thrown: getConnectedUsersFeed rethrows.
FailedFeed ==
    [EmptyFeed EXCEPT !.ok = FALSE,
                      !.error = "Failed to get connected users feed: Failed to fetch casts"]

\* getConnectedUsersFeed from the resolved matchedFids (not empty) on: fetch,
\* merge, filter by author, sort, deduplicate, normalize counters, paginate.
ConnectedUsersFeed(matchedFids, outcomes, limit, cursor) ==
    LET batched    == Len(matchedFids) > MAX_FIDS_PER_CALL
        single     == fetchCastsFromFids(matchedFids, outcomes[1])
        fetched    == IF batched
                      THEN MergeBatches(matchedFids, outcomes, NumBatches(matchedFids))
                      ELSE single.casts
        allCasts   == NormalizeEngagement(
                          DedupCasts(SortCasts(AuthorizedCasts(fetched, matchedFids)), {}))
        startIndex == StartIndex(cursor)
        endIndex   == EndIndex(cursor, startIndex, limit)
        page       == Slice(allCasts, ToInteger(cursor, startIndex),
                            ToInteger(cursor, endIndex))
        hasMore    == ToInteger(cursor, endIndex) < Len(allCasts)
    IN  IF ~batched /\ ~single.ok THEN FailedFeed
        ELSE [ok |-> TRUE, error |-> "", casts |-> page, hasMore |-> hasMore,
              nextCursor |-> IF hasMore THEN NextCursor(cursor, endIndex) ELSE NoCursor,
              totalMatchedUsers |-> Len(matchedFids),
              castsReturned |-> Len(page),
              totalCastsAvailable |-> Len(allCasts),
              matchedUsersCount |-> Len(matchedFids),
              apiCallsMade |-> IF batched THEN NumBatches(matchedFids) ELSE 1,
              batchesUsed |-> IF batched THEN NumBatches(matchedFids) ELSE 1,
              totalCastsFetched |-> Len(allCasts)]

\* The orders in which a query without ORDER BY may return its rows.
Orders(S) ==
    {seq \in [1..Cardinality(S) -> S] : \A i, j \in DOMAIN seq : i # j => seq[i] # seq[j]}

IdleFeed ==
    [pc |-> "idle", userFid |-> 0, limit |-> 0, cursor |-> NoCursor, liked |-> {},
     matchedFids |-> <<>>, calls |-> <<>>, outcomes |-> <<>>, castsBeforeFilter |-> 0,
     authorFidsBeforeFilter |-> {}, resp |-> EmptyFeed, pages |-> <<>>]

\* A call getConnectedUsersFeed(userFid, limit, cursor) starts: getUserMatches,
\* first query; no like given: no matched user, the empty feed.
FeedBegin(userFid) ==
    LET likedFids == QueryLikedBy(user_swipes, userFid)
    IN  /\ feed.pc = "idle"
        /\ feed' = IF likedFids = {}
                   THEN [IdleFeed EXCEPT !.pc = "done", !.userFid = userFid]
                   ELSE [IdleFeed EXCEPT !.pc = "um_mutual", !.userFid = userFid,
                                         !.liked = likedFids]
        /\ UNCHANGED <<storeVars, pointsVars, req, started, rd, rankVars, serviceVars>>

\* getUserMatches, second query: matchedFids is resolved.
FeedUmMutual ==
    LET matched == QueryMutualLikes(user_swipes, feed.liked, feed.userFid)
    IN  /\ feed.pc = "um_mutual"
        /\ \E order \in Orders(matched) :
               feed' = IF matched = {}
                       THEN [feed EXCEPT !.pc = "done", !.liked = {}, !.resp = EmptyFeed]
                       ELSE [feed EXCEPT !.pc = "fetch", !.liked = {},
                                         !.matchedFids = order]
        /\ UNCHANGED <<storeVars, pointsVars, req, started, rd, rankVars, serviceVars>>

\* The call once the fetches have answered 'outcomes': the rest of it has no
\* further await.  pages collects the pages handed to the caller.
FeedAnswered(f, outcomes, limit, cursor) ==
    LET batched == Len(f.matchedFids) > MAX_FIDS_PER_CALL
        fetched == IF batched
                   THEN MergeBatches(f.matchedFids, outcomes, NumBatches(f.matchedFids))
                   ELSE outcomes[1].casts
        resp    == ConnectedUsersFeed(f.matchedFids, outcomes, limit, cursor)
    IN  [f EXCEPT !.pc = "done", !.limit = limit, !.cursor = cursor,
                  !.calls = FeedCalls(f.matchedFids),
                  !.outcomes = outcomes,
                  !.castsBeforeFilter = IF resp.ok THEN Len(fetched) ELSE 0,
                  !.authorFidsBeforeFilter =
                      IF resp.ok THEN {c.author : c \in Range(fetched)} ELSE {},
                  !.resp = resp,
                  !.pages = IF resp.ok THEN Append(@, resp.casts) ELSE @]

\* The fetches, one per batch and awaited together, and the rest of the call.
\* The arguments limit and cursor are first read here, after the fetches:
\* they are drawn here.
FeedFetch(limit, cursor) ==
    /\ feed.pc = "fetch"
    /\ \E outcomes \in [1..NumBatches(feed.matchedFids) -> FetchOutcomes] :
           feed' = FeedAnswered(feed, outcomes, limit, cursor)
    /\ UNCHANGED <<storeVars, pointsVars, req, started, rd, rankVars, serviceVars>>

\* The caller takes the answer.
FeedEnd ==
    /\ feed.pc = "done"
    /\ feed' = IdleFeed
    /\ UNCHANGED <<storeVars, pointsVars, req, started, rd, rankVars, serviceVars>>

----------------------------------------------------------------------------
(* The read operations of dbService, called on their own (by a controller  *)
(* that only reads, by matchingService.getMatchingUsers, which reaches     *)
(* user_swipes through getSwipedUserFids alone).  Each step is one SELECT. *)

ReadOps ==
    {"getUserMatches", "getRequestsSent", "getRequestsReceived", "checkIfMatched",
     "getSwipedUserFids"}

\* Mutant: the statement is a DELETE ... RETURNING.
SelectByDelete(rows, matching, column) ==
    [rows |-> rows \ matching, data |-> {r[column] : r \in matching}]

\* supabase.from('user_swipes').select(column) with its filters: the table it
\* leaves and the column of the rows that match.
Select(rows, matching, column) ==
    [rows |-> rows, data |-> {r[column] : r \in matching}]

\* The locals of a read call.  History: connected is the set of users who were
\* mutual connections of userFid on a table a swipe found or left while the
\* call was between its queries.
IdleRead ==
    [op |-> "none", pc |-> "idle", userFid |-> 0, targetFid |-> 0, first |-> {},
     liked |-> {}, matched |-> {}, has1 |-> FALSE, fids |-> {}, flag |-> FALSE,
     connected |-> {}]

\* The call returns a list of fids (flag FALSE) or a boolean.
ReadReturn(r, fids, flag) ==
    [IdleRead EXCEPT !.op = r.op, !.pc = "done", !.userFid = r.userFid,
                     !.targetFid = r.targetFid, !.fids = fids, !.flag = flag]

\* The call once getUserMatches has returned matchedFids to it.
AfterUserMatches(r, matchedFids) ==
    CASE r.op = "getUserMatches"      -> ReadReturn(r, matchedFids, FALSE)
      [] r.op = "getRequestsSent"     -> ReadReturn(r, r.first \ matchedFids, FALSE)
      [] r.op = "getRequestsReceived" ->
             [r EXCEPT !.pc = "my_likes", !.liked = {}, !.matched = matchedFids]

\* One SELECT of the call in flight.
ReadStep(sel, r) ==
    /\ user_swipes' = sel.rows
    /\ rd' = r
    /\ UNCHANGED <<lastKind, reissued, pointsVars, req, started, feed, rankVars, serviceVars>>

\* A call starts, with its first SELECT.
ReadBegin(op, userFid, targetFid) ==
    LET r       == [IdleRead EXCEPT !.op = op, !.userFid = userFid,
                                    !.targetFid = IF op = "checkIfMatched"
                                                  THEN targetFid ELSE 0]
        likes   == Select(user_swipes,
                          {x \in user_swipes : x.user_fid = userFid /\ x.action = "like"},
                          "target_fid")
        likers  == Select(user_swipes,
                          {x \in user_swipes : x.target_fid = userFid /\ x.action = "like"},
                          "user_fid")
        swipe1  == Select(user_swipes,
                          {x \in user_swipes : /\ x.user_fid = userFid
                                               /\ x.target_fid = targetFid
                                               /\ x.action = "like"},
                          "id")
        swiped  == Select(user_swipes, {x \in user_swipes : x.user_fid = userFid},
                          "target_fid")
    IN  /\ rd.pc = "idle" /\ feed.pc = "idle"
        /\ CASE op = "getUserMatches" ->
                    ReadStep(likes, IF likes.data = {} THEN ReadReturn(r, {}, FALSE)
                                    ELSE [r EXCEPT !.pc = "um_mutual", !.liked = likes.data])
             [] op = "getRequestsSent" ->
                    ReadStep(likes, IF likes.data = {} THEN ReadReturn(r, {}, FALSE)
                                    ELSE [r EXCEPT !.pc = "um_likes", !.first = likes.data])
             [] op = "getRequestsReceived" ->
                    ReadStep(likers, IF likers.data = {} THEN ReadReturn(r, {}, FALSE)
                                     ELSE [r EXCEPT !.pc = "um_likes", !.first = likers.data])
             [] op = "checkIfMatched" ->
                    ReadStep(swipe1, [r EXCEPT !.pc = "check2", !.has1 = (swipe1.data # {})])
             [] op = "getSwipedUserFids" ->
                    ReadStep(swiped, ReadReturn(r, swiped.data, FALSE))

\* getUserMatches inside getRequestsSent or getRequestsReceived, first query.
ReadUmLikes ==
    LET likes == Select(user_swipes,
                        {x \in user_swipes : x.user_fid = rd.userFid /\ x.action = "like"},
                        "target_fid")
    IN  /\ rd.pc = "um_likes"
        /\ ReadStep(likes, IF likes.data = {} THEN AfterUserMatches(rd, {})
                           ELSE [rd EXCEPT !.pc = "um_mutual", !.liked = likes.data])

\* getUserMatches, second query.
ReadUmMutual ==
    LET mutual == Select(user_swipes,
                         {x \in user_swipes : /\ x.user_fid \in rd.liked
                                              /\ x.target_fid = rd.userFid
                                              /\ x.action = "like"},
                         "user_fid")
    IN  /\ rd.pc = "um_mutual"
        /\ ReadStep(mutual, AfterUserMatches(rd, mutual.data))

\* getRequestsReceived, last query and filter.
ReadMyLikes ==
    LET myLikes == Select(user_swipes,
                          {x \in user_swipes : /\ x.user_fid = rd.userFid
                                               /\ x.action = "like"
                                               /\ x.target_fid \in rd.first},
                          "target_fid")
    IN  /\ rd.pc = "my_likes"
        /\ ReadStep(myLikes,
                    ReadReturn(rd, FilterPending(rd.first, myLikes.data, rd.matched), FALSE))

\* checkIfMatched, second query.
ReadCheck2 ==
    LET swipe2 == Select(user_swipes,
                         {x \in user_swipes : /\ x.user_fid = rd.targetFid
                                              /\ x.target_fid = rd.userFid
                                              /\ x.action = "like"},
                         "id")
    IN  /\ rd.pc = "check2"
        /\ ReadStep(swipe2, ReadReturn(rd, {}, rd.has1 /\ swipe2.data # {}))

\* The caller takes the result.
ReadEnd ==
    /\ rd.pc = "done"
    /\ rd' = IdleRead
    /\ UNCHANGED <<storeVars, pointsVars, req, started, feed, rankVars, serviceVars>>

----------------------------------------------------------------------------
(* matchingService.  A persona is a row of table personas: farcaster_fid   *)
(* and the attributes the scorer reads.  A list that is null is the empty  *)
(* list (x || []), a string that is null is "".  Scores are in hundredths: *)
(* 3000 is the score 30, 750 the score 7.5.                                *)

MaxList == 2    \* attribute lists have up to MaxList items

\* String(item).toLowerCase() on the strings of the model
Lower(item) ==
    CASE item = "DeFi" -> "defi"
      [] item = "NFT" -> "nft"
      [] OTHER -> item

\* Mutant: the comparison is case-sensitive.
arrayIntersectionCaseSensitive(arr1, arr2) ==
    IF Len(arr1) = 0 \/ Len(arr2) = 0 THEN <<>>
    ELSE FilterSeq(arr1, {item \in Range(arr1) : item \in Range(arr2)})

\* arr1.filter(item => lower2.includes(String(item).toLowerCase()))
arrayIntersection(arr1, arr2) ==
    IF Len(arr1) = 0 \/ Len(arr2) = 0 THEN <<>>
    ELSE LET lower2 == {Lower(x) : x \in Range(arr2)}
         IN  FilterSeq(arr1, {item \in Range(arr1) : Lower(item) \in lower2})

\* Math.max(a.length, b.length, 1)
MaxLength(arr1, arr2) ==
    LET a == Len(arr1)  b == Len(arr2)
    IN  IF a >= b /\ a >= 1 THEN a ELSE IF b >= 1 THEN b ELSE 1

\* Scores before rounding are fractions over the lengths of the lists: they
\* are kept as numerators over Denominator, the product of the lengths possible.
RECURSIVE Factorial(_)
Factorial(n) == IF n <= 1 THEN 1 ELSE n * Factorial(n - 1)

Denominator == Factorial(MaxList)

\* Mutant: the share is taken over the shorter list.
ListScoreOverMin(arr1, arr2, weight) ==
    LET common == arrayIntersection(arr1, arr2)
        least  == IF Len(arr1) <= Len(arr2) THEN Len(arr1) ELSE Len(arr2)
    IN  IF Len(common) > 0
        THEN Len(common) * weight * 100 * (Denominator \div (IF least >= 1 THEN least ELSE 1))
        ELSE 0

\* (common.length / Math.max(a.length, b.length, 1)) * weight, when common is not empty
ListScore(arr1, arr2, weight) ==
    LET common == arrayIntersection(arr1, arr2)
    IN  IF Len(common) > 0
        THEN Len(common) * weight * 100 * (Denominator \div MaxLength(arr1, arr2))
        ELSE 0

\* levels.indexOf(level): the position from 0, -1 when absent
IndexOf(levels, level) ==
    IF \E i \in DOMAIN levels : levels[i] = level
    THEN (CHOOSE i \in DOMAIN levels : levels[i] = level) - 1
    ELSE -1

Abs(x) == IF x < 0 THEN -x ELSE x

\* Mutant: levels two apart are partial matches too.
ExpertiseScoreWithin2(userPersona, matchPersona) ==
    LET levels == <<"beginner", "intermediate", "expert">>
    IN  IF userPersona.expertise_level # "" /\ matchPersona.expertise_level # ""
        THEN IF userPersona.expertise_level = matchPersona.expertise_level
             THEN 1500 * Denominator
             ELSE IF Abs(IndexOf(levels, userPersona.expertise_level)
                           - IndexOf(levels, matchPersona.expertise_level)) <= 2
             THEN 750 * Denominator
             ELSE 0
        ELSE 0

\* Expertise level: 15 on equal levels, 7.5 when the positions differ by 1.
ExpertiseScore(userPersona, matchPersona) ==
    LET levels == <<"beginner", "intermediate", "expert">>
    IN  IF userPersona.expertise_level # "" /\ matchPersona.expertise_level # ""
        THEN IF userPersona.expertise_level = matchPersona.expertise_level
             THEN 1500 * Denominator
             ELSE IF Abs(IndexOf(levels, userPersona.expertise_level)
                           - IndexOf(levels, matchPersona.expertise_level)) = 1
             THEN 750 * Denominator
             ELSE 0
        ELSE 0

\* Engagement style: 10 on equal styles.
EngagementScore(userPersona, matchPersona) ==
    IF /\ userPersona.engagement_style # "" /\ matchPersona.engagement_style # ""
       /\ userPersona.engagement_style = matchPersona.engagement_style
    THEN 1000 * Denominator
    ELSE 0

\* Math.min(100, Math.round(score * 100) / 100), halves rounded up
NormalizeScore(numerator) ==
    LET rounded == (2 * numerator + Denominator) \div (2 * Denominator)
    IN  IF rounded > 10000 THEN 10000 ELSE rounded

calculateMatchScore(userPersona, matchPersona) ==
    [score |->
        NormalizeScore(
            ListScore(userPersona.core_interests, matchPersona.core_interests, 30)
            + ListScore(userPersona.projects_protocols, matchPersona.projects_protocols, 25)
            + ExpertiseScore(userPersona, matchPersona)
            + EngagementScore(userPersona, matchPersona)
            + ListScore(userPersona.content_themes, matchPersona.content_themes, 15)
            + ListScore(userPersona.top_channels, matchPersona.top_channels, 5)),
     matchingKeywords |->
        [interests |-> arrayIntersection(userPersona.core_interests,
                                         matchPersona.core_interests),
         projects |-> arrayIntersection(userPersona.projects_protocols,
                                        matchPersona.projects_protocols),
         themes |-> arrayIntersection(userPersona.content_themes,
                                      matchPersona.content_themes),
         channels |-> arrayIntersection(userPersona.top_channels,
                                        matchPersona.top_channels)]]

NoKeywords == [interests |-> <<>>, projects |-> <<>>, themes |-> <<>>, channels |-> <<>>]
NoScore == [score |-> 0, matchingKeywords |-> NoKeywords]

\* No sendNotification call was made yet.  pending holds the calls that
\* await the publish call, as the counts they will return.  History: handed is the set of
\* hand-overs [key, at, nth] of a target to the publish call, swept
\* tells that the sweep of recordNotification deleted an entry, limited that
\* the rate limit kept a fid out of a publish call.
IdleNotified ==
    [calls |-> 0, ticks |-> 0, pending |-> {}, handed |-> {}, swept |-> FALSE,
     limited |-> FALSE,
     resp |-> [success |-> FALSE, message |-> "", sent |-> 0, skipped |-> 0]]

\* The locals of fetchAllUserCasts before the call.  allCasts is the length
\* of the array, cursor tells whether the call holds a cursor.  History:
\* attempts counts the requests sent for the current page, errors and waits
\* are the errors caught and the retry waits started for it.
IdleFetch ==
    [pc |-> "idle", maxCasts |-> 0, allCasts |-> 0, cursor |-> FALSE,
     retryCount |-> 0, retryDelay |-> 0, pages |-> 0,
     attempts |-> 0, errors |-> <<>>, waits |-> <<>>]

\* The server process has just started.
IdleServices ==
    /\ now = 0
    /\ notificationCache = {}
    /\ notified = IdleNotified
    /\ castFetch = IdleFetch

\* The locals of a getMatchingUsers call, and the result of the scorer for a
\* pair each way.  History: atCall and atRead are the rows of user_swipes when
\* the call was made and when it read them.
IdleRank ==
    [pc |-> "idle", fid |-> 0, page |-> 0, limit |-> 0, ok |-> TRUE, error |-> "",
     userPersona |-> {}, swipedFids |-> {}, allPersonas |-> <<>>,
     matches |-> <<>>, total |-> 0, totalPages |-> 0,
     forward |-> NoScore, backward |-> NoScore,
     atCall |-> {}, atRead |-> {}]

----------------------------------------------------------------------------
(* Spec: the swipe store under calls of dbService.recordSwipe.  The call   *)
(* has one await, the upsert, so it is one step.                           *)

NoKind == [p \in Fids \X Fids |-> "none"]

Init ==
    /\ user_swipes = {}
    /\ lastKind = NoKind
    /\ reissued = FALSE
    /\ scores = {[profile_id |-> getProfileIdByFid(1), total_points |-> InitPoints]}
    /\ point_events = {}
    /\ req = [p \in Procs |-> IdleReq]
    /\ started = 0
    /\ feed = IdleFeed
    /\ rd = IdleRead
    /\ personas = {}
    /\ rank = IdleRank
    /\ IdleServices

\* A call of dbService.recordSwipe(userFid, targetFid, action).
dbRecordSwipe(userFid, targetFid, action) ==
    /\ RecordSwipeStep(userFid, targetFid, action)
    /\ UNCHANGED <<rd, feed, scores, point_events, req, started, rankVars, serviceVars>>

Next ==
    \E userFid \in Fids, targetFid \in Fids, action \in SwipeInputs :
        dbRecordSwipe(userFid, targetFid, action)

Spec == Init /\ [][Next]_vars

----------------------------------------------------------------------------
(* SpecCtl: the two controllers, their requests interleaved at every       *)
(* database operation.                                                     *)

NextCtl ==
    \/ \E p \in Procs, userFid \in Fids, targetFid \in Fids, action \in SwipeInputs :
           SwipeBegin(p, userFid, targetFid, action)
    \/ \E p \in Procs : SwipeUpsert(p)
    \/ \E p \in Procs : SwipeDeductRead(p)
    \/ \E p \in Procs : SwipeDeductInsert(p)
    \/ \E p \in Procs : SwipeDeductUpdate(p)
    \/ \E p \in Procs : SwipeCheck1(p)
    \/ \E p \in Procs : SwipeCheck2(p)
    \/ \E p \in Procs, userFid \in Fids, targetFid \in Fids, action \in AcceptInputs :
           AcceptBegin(p, userFid, targetFid, action)
    \/ \E p \in Procs : AcceptReceived(p)
    \/ \E p \in Procs : AcceptUmLikes(p)
    \/ \E p \in Procs : AcceptUmMutual(p)
    \/ \E p \in Procs : AcceptMyLikes(p)
    \/ \E p \in Procs : AcceptUpsert(p)
    \/ \E p \in Procs : AcceptCheck1(p)
    \/ \E p \in Procs : AcceptCheck2(p)
    \/ \E p \in Procs, side \in {"user", "target"} : AcceptReward(p, side)

SpecCtl == Init /\ [][NextCtl]_vars

----------------------------------------------------------------------------
(* SpecFeed: feed requests, one at a time, and calls of                    *)
(* dbService.recordSwipe, at most MaxSwipes of them, before a feed request *)
(* and between the two queries of its getUserMatches.  Once matchedFids is *)
(* resolved the call reads the store no more, and its answer is a value    *)
(* handed to the caller: it is kept for one step.                          *)

MaxSwipes == 4

SwipeDuringFeed(userFid, targetFid, action) ==
    /\ feed.pc \in {"idle", "um_mutual"}
    /\ started < MaxSwipes
    /\ started' = started + 1
    /\ RecordSwipeStep(userFid, targetFid, action)
    /\ UNCHANGED <<pointsVars, req, feed, rd, rankVars, serviceVars>>

NextFeed ==
    \/ \E userFid \in Fids, targetFid \in Fids, action \in SwipeInputs :
           SwipeDuringFeed(userFid, targetFid, action)
    \/ \E userFid \in Fids : FeedBegin(userFid)
    \/ FeedUmMutual
    \/ \E limit \in 1..MaxLimit, cursor \in CursorInputs : FeedFetch(limit, cursor)
    \/ FeedEnd

SpecFeed == Init /\ [][NextFeed]_vars

----------------------------------------------------------------------------
(* SpecReads: the service called from outside, one call at a time: calls   *)
(* of recordSwipe, read calls of dbService and feed requests.              *)

SwipeBetweenReads(userFid, targetFid, action) ==
    /\ rd.pc = "idle"
    /\ SwipeDuringFeed(userFid, targetFid, action)

FeedBeginBetweenReads(userFid) ==
    /\ rd.pc = "idle"
    /\ FeedBegin(userFid)

NextReads ==
    \/ \E userFid \in Fids, targetFid \in Fids, action \in SwipeInputs :
           SwipeBetweenReads(userFid, targetFid, action)
    \/ \E op \in ReadOps, userFid \in Fids, targetFid \in Fids :
           ReadBegin(op, userFid, targetFid)
    \/ ReadUmLikes
    \/ ReadUmMutual
    \/ ReadMyLikes
    \/ ReadCheck2
    \/ ReadEnd
    \/ \E userFid \in Fids : FeedBeginBetweenReads(userFid)
    \/ FeedUmMutual
    \/ \E limit \in 1..MaxLimit, cursor \in CursorInputs : FeedFetch(limit, cursor)
    \/ FeedEnd

SpecReads == Init /\ [][NextReads]_vars

----------------------------------------------------------------------------
(* SpecAgg: the aggregation as a function of the content of the source.    *)
(* The connection set and the answers of the source are fixed from the     *)
(* start and the caller pages through the feed: every request answers from *)
(* the same content, and the next request carries the nextCursor returned. *)
(* Two families of content are drawn: up to MaxFetched casts that differ   *)
(* by author, hash and date, and one cast with any engagement data.        *)

MaxFetched == 3    \* casts answered by the only call of a request
MaxBatched == 2    \* casts answered over the two calls of a batched request
AggMaxHash == 3    \* hashes of SpecAgg are 1..AggMaxHash, 0 for none
AggMaxTs == 2      \* dates of SpecAgg are 1..AggMaxTs, 0 for none
MaxCount == 2      \* the explicit counts drawn are 0 and MaxCount
MaxArrayLen == 1   \* the arrays drawn have length 0 and MaxArrayLen

AggViewer == 1

AggCasts ==
    [author : 2..NumUsers, hash : 0..AggMaxHash, thread_hash : {0},
     timestamp : 0..AggMaxTs, created_at : {0},
     reactions : {NoReactions}, replies : {NoReplies}]

CountInputs == {Undefined, Null, Number(0), Number(MaxCount)}
ArrayInputs == {Undefined, Array(0), Array(MaxArrayLen)}

ReactionsInputs ==
    {NoReactions, [NoReactions EXCEPT !.type = "number"]}
        \cup [type : {"object"}, likes_count : CountInputs, likes : ArrayInputs,
              recasts_count : CountInputs, recasts : ArrayInputs]

RepliesInputs ==
    {NoReplies, [NoReplies EXCEPT !.type = "number"]}
        \cup {[type |-> "array", count |-> Undefined, length |-> n] : n \in {0, MaxArrayLen}}
        \cup {[type |-> "object", count |-> c, length |-> 0] : c \in CountInputs}

EngagementCasts ==
    [author : {2}, hash : {1}, thread_hash : {0}, timestamp : {1}, created_at : {0},
     reactions : ReactionsInputs, replies : RepliesInputs]

\* The answers of the calls of one request: any call may fail.
AggAnswers(n) ==
    {[ok |-> FALSE, casts |-> <<>>]}
        \cup {[ok |-> TRUE, casts |-> c] : c \in SeqsUpTo(AggCasts, n)}

AggOutcomes(numCalls) ==
    IF numCalls = 1 THEN {<<o>> : o \in AggAnswers(MaxFetched)}
    ELSE UNION {{<<o1, o2>> : o2 \in AggAnswers(MaxBatched - Len(o1.casts))} :
                   o1 \in AggAnswers(MaxBatched)}

\* The table when userFid is connected with the users of matchedFids, and its history.
ConnectedStore(userFid, matchedFids) ==
    {NewSwipeRow({}, userFid, m, "like") : m \in Range(matchedFids)}
        \cup {NewSwipeRow({}, m, userFid, "like") : m \in Range(matchedFids)}

ConnectedKinds(userFid, matchedFids) ==
    [p \in Fids \X Fids |->
        IF \/ (p[1] = userFid /\ p[2] \in Range(matchedFids))
           \/ (p[2] = userFid /\ p[1] \in Range(matchedFids))
        THEN "like" ELSE "none"]

AggRequest(m, o, l, c) ==
    [IdleFeed EXCEPT !.pc = "fetch", !.userFid = AggViewer, !.matchedFids = m,
                     !.outcomes = o, !.limit = l, !.cursor = c]

InitAgg ==
    /\ \/ \E m \in {<<2>>, <<2, 3>>}, l \in 1..MaxLimit,
             c \in {NoCursor, BadCursor, NoOffsetCursor} :
               \E o \in AggOutcomes(IF Len(m) > MAX_FIDS_PER_CALL
                                     THEN NumBatches(m) ELSE 1) :
                   feed = AggRequest(m, o, l, c)
       \/ \E c \in EngagementCasts :
               feed = AggRequest(<<2>>, <<[ok |-> TRUE, casts |-> <<c>>]>>, 1, NoCursor)
    /\ user_swipes = ConnectedStore(feed.userFid, feed.matchedFids)
    /\ lastKind = ConnectedKinds(feed.userFid, feed.matchedFids)
    /\ reissued = FALSE
    /\ scores = {[profile_id |-> getProfileIdByFid(1), total_points |-> InitPoints]}
    /\ point_events = {}
    /\ req = [p \in Procs |-> IdleReq]
    /\ started = 0
    /\ rd = IdleRead
    /\ personas = {}
    /\ rank = IdleRank
    /\ IdleServices

\* One request: the fetches answer the fixed content, the page is returned.
FeedPage ==
    /\ feed.pc = "fetch"
    /\ feed' = FeedAnswered(feed, feed.outcomes, feed.limit, feed.cursor)
    /\ UNCHANGED <<storeVars, pointsVars, req, started, rd, rankVars, serviceVars>>

\* The caller asks for the next page, passing the nextCursor it was given;
\* getUserMatches resolves the same connections again.
FeedNextPage ==
    /\ feed.pc = "done"
    /\ feed.resp.ok
    /\ feed.resp.hasMore
    /\ feed' = [feed EXCEPT !.pc = "fetch", !.cursor = feed.resp.nextCursor]
    /\ UNCHANGED <<storeVars, pointsVars, req, started, rd, rankVars, serviceVars>>

NextAgg ==
    \/ FeedPage
    \/ FeedNextPage

SpecAgg == InitAgg /\ [][NextAgg]_vars

----------------------------------------------------------------------------
(* SpecScore: the scorer as a function of two personas.  The personas of   *)
(* users 1 and 2 are drawn at the start, from lists that vary in items,    *)
(* repetition and casing, or from personas that vary in every attribute;   *)
(* each user is then scored as a candidate of the other.                   *)

InterestNames == {"defi", "DeFi", "nft"}
ExpertiseLevels == {"", "beginner", "intermediate", "expert", "advanced"}
EngagementStyles == {"", "creator", "lurker"}

ListPersonas ==
    [core_interests : SeqsUpTo(InterestNames, MaxList),
     projects_protocols : {<<>>, <<"aave">>, <<"aave", "aave">>},
     expertise_level : {""}, engagement_style : {""},
     content_themes : {<<>>}, top_channels : {<<>>}]

MixedPersonas ==
    [core_interests : {<<>>, <<"defi">>, <<"defi", "nft">>, <<"dao">>},
     projects_protocols : {<<>>, <<"aave">>},
     expertise_level : ExpertiseLevels, engagement_style : EngagementStyles,
     content_themes : {<<>>, <<"art">>}, top_channels : {<<>>, <<"base">>}]

PersonaRow(fid, attributes) ==
    [farcaster_fid |-> fid,
     core_interests |-> attributes.core_interests,
     projects_protocols |-> attributes.projects_protocols,
     expertise_level |-> attributes.expertise_level,
     engagement_style |-> attributes.engagement_style,
     content_themes |-> attributes.content_themes,
     top_channels |-> attributes.top_channels]

\* getPersonaByFid: the row, .single()
PersonaOf(rows, fid) == CHOOSE row \in rows : row.farcaster_fid = fid

InitScore ==
    /\ \/ \E a \in ListPersonas, b \in ListPersonas :
              personas = {PersonaRow(1, a), PersonaRow(2, b)}
       \/ \E a \in MixedPersonas, b \in MixedPersonas :
              personas = {PersonaRow(1, a), PersonaRow(2, b)}
    /\ rank = IdleRank
    /\ IdleServices
    /\ user_swipes = {}
    /\ lastKind = NoKind
    /\ reissued = FALSE
    /\ scores = {[profile_id |-> getProfileIdByFid(1), total_points |-> InitPoints]}
    /\ point_events = {}
    /\ req = [p \in Procs |-> IdleReq]
    /\ started = 0
    /\ feed = IdleFeed
    /\ rd = IdleRead

\* calculateMatchScore(userPersona, persona) with user 1 the requester and
\* user 2 the candidate, and with the two the other way round.
ScorePair ==
    /\ rank.pc = "idle"
    /\ rank' = [IdleRank EXCEPT
                    !.pc = "scored",
                    !.forward = calculateMatchScore(PersonaOf(personas, 1),
                                                    PersonaOf(personas, 2)),
                    !.backward = calculateMatchScore(PersonaOf(personas, 2),
                                                     PersonaOf(personas, 1))]
    /\ UNCHANGED <<storeVars, pointsVars, req, started, feed, rd, personas, serviceVars>>

NextScore == ScorePair

SpecScore == InitScore /\ [][NextScore]_vars



----------------------------------------------------------------------------
(* Claims about the swipe store and its derived relations (Spec).          *)

\* The kinds stored for the ordered pair (a, b): empty when it has no row.
StoredKinds(a, b) == {r.action : r \in ConflictRows(user_swipes, a, b)}

StoredLike(a, b) == StoredKinds(a, b) = {"like"}

\* C1: for distinct users A and B, once recordSwipe(A,B,'like') and
\* recordSwipe(B,A,'like') have both completed, in either order and with no
\* later write to either ordered pair, checkIfMatched(A,B) is true, B is in
\* getUserMatches(A) and A is in getUserMatches(B).
C1_MutualAfterBothLikes ==
    \A a, b \in Fids :
        (a # b /\ lastKind[<<a, b>>] = "like" /\ lastKind[<<b, a>>] = "like")
        => /\ checkIfMatched(user_swipes, a, b)
           /\ b \in getUserMatches(user_swipes, a)
           /\ a \in getUserMatches(user_swipes, b)

\* Both likes of a pair have completed, the first of them over an earlier reject.
C1_Witness ==
    \E a, b \in Fids :
        /\ a # b
        /\ lastKind[<<a, b>>] = "like" /\ lastKind[<<b, a>>] = "like"
        /\ checkIfMatched(user_swipes, a, b)
        /\ \E c \in Fids \ {a, b} : lastKind[<<a, c>>] = "reject"

\* C3: for distinct users A and B, whenever A's stored action toward B is
\* 'like' and B's action toward A is absent or 'reject', B is in
\* getRequestsSent(A), A is in getRequestsReceived(B), and neither is in the
\* other's getUserMatches.
C3_OneSidedLikeIsPending ==
    \A a, b \in Fids :
        (a # b /\ StoredLike(a, b) /\ StoredKinds(b, a) \in {{}, {"reject"}})
        => /\ b \in getRequestsSent(user_swipes, a)
           /\ a \in getRequestsReceived(user_swipes, b)
           /\ b \notin getUserMatches(user_swipes, a)
           /\ a \notin getUserMatches(user_swipes, b)

\* One user holds a like answered by a reject and another like not answered at all.
C3_Witness ==
    \E a, b, c \in Fids :
        /\ a # b /\ a # c /\ b # c
        /\ StoredLike(a, b) /\ StoredKinds(b, a) = {"reject"}
        /\ StoredLike(a, c) /\ StoredKinds(c, a) = {}
        /\ getRequestsSent(user_swipes, a) = {b, c}
        /\ a \in getRequestsReceived(user_swipes, b)
        /\ a \in getRequestsReceived(user_swipes, c)

\* C4: after any sequence of recordSwipe calls the store holds at most one
\* row per ordered pair (actor, target), it holds one exactly when a
\* recordSwipe completed for the pair, and the row's kind is the kind of the
\* last recordSwipe completed for the pair.
C4_OneRowPerPairLastKindWins ==
    \A a, b \in Fids :
        /\ Cardinality(ConflictRows(user_swipes, a, b)) <= 1
        /\ StoredKinds(a, b) =
             (IF lastKind[<<a, b>>] = "none" THEN {} ELSE {lastKind[<<a, b>>]})

\* A pair was swiped on again with the other kind: one row, the later kind.
C4_Witness ==
    \E a, b \in Fids :
        /\ lastKind[<<a, b>>] = "reject"
        /\ ConflictRows(user_swipes, a, b) =
             {[id |-> <<a, b, 0>>, user_fid |-> a, target_fid |-> b, action |-> "reject"]}
        /\ lastKind[<<b, a>>] = "like"
        /\ ~reissued

\* The fids of the three derived lists of user x over the table 'rows'.
Derived(rows, x) ==
    <<getUserMatches(rows, x), getRequestsSent(rows, x), getRequestsReceived(rows, x)>>

\* C5: issuing recordSwipe(A,B,'like') again, when the last recordSwipe
\* completed for (A,B) was already 'like', leaves getUserMatches(X),
\* getRequestsSent(X) and getRequestsReceived(X) unchanged for every user X.
C5_RepeatedLikeIsIdempotent ==
    [][\A a, b \in Fids :
          (lastKind[<<a, b>>] = "like" /\ dbRecordSwipe(a, b, "like"))
          => \A x \in Fids : Derived(user_swipes', x) = Derived(user_swipes, x)]_vars

\* A like was issued a second time, for a pair that is a mutual match.
C5_Witness ==
    /\ reissued
    /\ \E a, b \in Fids :
          /\ a # b
          /\ lastKind[<<a, b>>] = "like"
          /\ b \in getUserMatches(user_swipes, a)

\* C6: in every reachable state and for all users A and B, checkIfMatched(A,B)
\* is true exactly when the stored actions A->B and B->A are both 'like';
\* checkIfMatched(A,B) = checkIfMatched(B,A); and B is in getUserMatches(A)
\* exactly when A is in getUserMatches(B), exactly when checkIfMatched(A,B).
C6_MatchIsMutualLikeAndSymmetric ==
    \A a, b \in Fids :
        /\ checkIfMatched(user_swipes, a, b) <=> (StoredLike(a, b) /\ StoredLike(b, a))
        /\ checkIfMatched(user_swipes, a, b) <=> checkIfMatched(user_swipes, b, a)
        /\ (b \in getUserMatches(user_swipes, a)) <=> (a \in getUserMatches(user_swipes, b))
        /\ (b \in getUserMatches(user_swipes, a)) <=> checkIfMatched(user_swipes, a, b)

\* A user has one mutual match, one like answered by a reject, and is liked
\* by nobody else.
C6_Witness ==
    \E a, b, c \in Fids :
        /\ a # b /\ a # c /\ b # c
        /\ StoredLike(a, b) /\ StoredLike(b, a)
        /\ StoredLike(a, c) /\ StoredKinds(c, a) = {"reject"}
        /\ getUserMatches(user_swipes, a) = {b}
        /\ checkIfMatched(user_swipes, b, a)
        /\ ~checkIfMatched(user_swipes, a, c)

\* C7: in every reachable state and for every user U, getRequestsSent(U) is
\* {x : U likes x} minus getUserMatches(U), and getRequestsReceived(U) is
\* {x : x likes U} minus {x : U likes x} minus getUserMatches(U).
C7_PendingSetsAreSetDifferences ==
    \A u \in Fids :
        LET likes   == {x \in Fids : StoredLike(u, x)}
            likedBy == {x \in Fids : StoredLike(x, u)}
        IN  /\ getRequestsSent(user_swipes, u) = likes \ getUserMatches(user_swipes, u)
            /\ getRequestsReceived(user_swipes, u) =
                 (likedBy \ likes) \ getUserMatches(user_swipes, u)

\* A user with a match, a request sent and nothing received, while another
\* user has a request received and has liked nobody.
C7_Witness ==
    \E a, b, c \in Fids :
        /\ a # b /\ a # c /\ b # c
        /\ getUserMatches(user_swipes, a) = {b}
        /\ getRequestsSent(user_swipes, a) = {c}
        /\ getRequestsReceived(user_swipes, a) = {}
        /\ getRequestsReceived(user_swipes, c) = {a}
        /\ QueryLikedBy(user_swipes, c) = {}

----------------------------------------------------------------------------
(* Claims about the controllers (SpecCtl).                                 *)

\* Slot p has answered a request of handler op.
Answered(p, op) == req[p].op = op /\ req[p].pc = "done"

\* C8: after a successful acceptRequest(userFid, targetFid, action), for
\* 'accept' and for 'reject' alike, targetFid is no longer in
\* getRequestsReceived(userFid), as long as targetFid's like and the swipe the
\* handler wrote are still the last ones recorded for their pairs.
C8_HandledRequestLeavesReceived ==
    \A p \in Procs :
        (/\ Answered(p, "accept")
         /\ req[p].resp.status = 200
         /\ lastKind[<<req[p].targetFid, req[p].userFid>>] = "like"
         /\ lastKind[<<req[p].userFid, req[p].targetFid>>] = swipeAction(req[p].action))
        => req[p].targetFid \notin getRequestsReceived(user_swipes, req[p].userFid)

InvalidSwipe(userFid, targetFid, action) ==
    action \notin {"like", "reject"} \/ userFid = targetFid

\* C9: recordSwipe(actor, target, kind) fails with an error when kind is not
\* 'like' or 'reject' and when actor = target, in dbService and in the
\* controller (which answers 400); the swipe store is then left unchanged and no
\* points are deducted.  Otherwise it upserts and returns the stored row.
C9_InvalidSwipeRejectedElseUpserted ==
    [][/\ \A u \in Fids, t \in Fids, a \in SwipeInputs :
              LET res == recordSwipe(user_swipes, u, t, a)
              IN  IF InvalidSwipe(u, t, a)
                  THEN ~res.ok /\ res.error # "" /\ res.rows = user_swipes /\ res.data = {}
                  ELSE /\ res.ok
                       /\ res.data = ConflictRows(res.rows, u, t)
                       /\ {r.action : r \in res.data} = {a}
                       /\ Cardinality(res.data) = 1
       /\ \A p \in Procs :
              (req[p].op = "swipe"
               /\ InvalidSwipe(req[p].userFid, req[p].targetFid, req[p].action))
              => /\ req[p].pc = "done"
                 /\ req[p].resp.status = 400 /\ req[p].resp.error # ""
                 /\ req[p].resp.swipe = {} /\ req[p].resp.points = {}
       /\ \A p \in Procs :
              (req'[p] # req[p] /\ req'[p].op = "swipe"
               /\ InvalidSwipe(req'[p].userFid, req'[p].targetFid, req'[p].action))
              => /\ req'[p].pc = "done" /\ req'[p].resp.status = 400
                 /\ UNCHANGED <<user_swipes, scores, point_events>>
       /\ \A p \in Procs :
              (req[p].op = "swipe" /\ req[p].pc = "upsert" /\ req'[p] # req[p])
              => LET stored == ConflictRows(user_swipes', req[p].userFid, req[p].targetFid)
                 IN  /\ Cardinality(stored) = 1
                     /\ {r.action : r \in stored} = {req[p].action}
                     /\ stored = (IF req'[p].pc = "done" THEN req'[p].resp.swipe
                                  ELSE req'[p].swipe)
      ]_vars

\* The controller has refused a swipe of unknown kind and a swipe on oneself,
\* and the store holds the only valid swipe requested.
C9_Witness ==
    \E p, q \in Procs :
        /\ Answered(p, "swipe") /\ req[p].action = "superlike"
        /\ req[p].userFid # req[p].targetFid
        /\ req[p].resp.status = 400
        /\ Answered(q, "swipe") /\ req[q].action = "like"
        /\ req[q].userFid = req[q].targetFid
        /\ req[q].resp.status = 400
        /\ Cardinality(user_swipes) = 1
        /\ started = 3

\* C10: acceptRequest handles a request only if it is pending: when targetFid
\* is not in getRequestsReceived(userFid) at the time of the call, and no other
\* request changes the swipe store while the handler reads it, the handler
\* writes no swipe and awards no points, and its answer is the 400 error
\* 'No pending request found from this user'.
C10_NoPendingRequestNoHandling ==
    [][\A p \in Procs :
          (/\ req[p].op = "accept" /\ req[p].pc # "done"
           /\ ~req[p].pendingAtCall /\ req[p].clean
           /\ req'[p] # req[p] /\ req'[p].clean)
          => /\ UNCHANGED <<user_swipes, scores, point_events>>
             /\ req'[p].pc \in AcceptReadPhase \cup {"done"}
             /\ req'[p].pc = "done"
                  => (req'[p].resp.status = 400 /\ req'[p].resp.error = NoPendingRequest)
      ]_vars

\* An accept of a user who is already a mutual match was answered 'no pending request'.
C10_Witness ==
    \E p \in Procs :
        /\ Answered(p, "accept") /\ req[p].action = "accept"
        /\ req[p].resp.status = 400 /\ req[p].resp.error = NoPendingRequest
        /\ checkIfMatched(user_swipes, req[p].userFid, req[p].targetFid)
        /\ point_events = {}

----------------------------------------------------------------------------
(* Claims about the feed (SpecFeed).                                       *)

\* C2: feed authorization.  For every user, every store state and every
\* content the source may return (casts of non-connections or without author
\* included), each cast in the list returned by getConnectedUsersFeed has an
\* author fid in the mutual-connection set that getUserMatches resolved for
\* that request.
C2_FeedCastsAreByResolvedConnections ==
    feed.pc = "done"
    => \A i \in DOMAIN feed.resp.casts :
           /\ feed.resp.casts[i].author # 0
           /\ feed.resp.casts[i].author \in Range(feed.matchedFids)

\* A feed was answered with a cast, after the source had also returned a cast
\* of somebody who is no connection of the user, or of nobody.
C2_Witness ==
    /\ feed.pc = "done" /\ feed.resp.ok
    /\ Len(feed.resp.casts) >= 1
    /\ feed.castsBeforeFilter > Len(feed.resp.casts)
    /\ feed.authorFidsBeforeFilter \ Range(feed.matchedFids) # {}

\* C11: whenever acceptRequest(userFid, targetFid, 'accept') answers success,
\* the response has isMatch = true ('You are now connected!'), for every
\* interleaving, a swipe of targetFid toward userFid written between the
\* pending-request check, the like upsert and the match check included.
C11_AcceptSuccessIsMatch ==
    \A p \in Procs :
        (Answered(p, "accept") /\ req[p].action = "accept" /\ req[p].resp.status = 200)
        => /\ req[p].resp.isMatch
           /\ req[p].resp.message = "You are now connected!"

\* The kind stored for the ordered pair (a, b), "none" when it has no row.
StoredKind(a, b) ==
    IF StoredKinds(a, b) = {} THEN "none" ELSE CHOOSE k \in StoredKinds(a, b) : TRUE

\* The table of the shortest history that ends with kind kab stored for (a, b)
\* and kba for (b, a): one recordSwipe per stored action, on an empty table.
ShortestHistory(a, b, kab, kba) ==
    LET first == IF kab = "none" THEN {} ELSE recordSwipe({}, a, b, kab).rows
    IN  IF kba = "none" THEN first ELSE recordSwipe(first, b, a, kba).rows

\* What the read operations say of a and b to each other over the table 'rows'.
PairView(rows, a, b) ==
    <<checkIfMatched(rows, a, b), checkIfMatched(rows, b, a),
      b \in getUserMatches(rows, a), a \in getUserMatches(rows, b),
      b \in getRequestsSent(rows, a), a \in getRequestsSent(rows, b),
      b \in getRequestsReceived(rows, a), a \in getRequestsReceived(rows, b)>>

\* C12: the derived pair state is a function of the current actions only.
\* Whatever the history of recordSwipe calls (of the two controllers), what
\* checkIfMatched, getUserMatches, getRequestsSent and getRequestsReceived say
\* of A and B is what they say after the shortest history ending with the same
\* stored actions for (A,B) and (B,A); and a mutual connection stops being one
\* in the step that overwrites either side's action with 'reject'.
C12_PairStateIsFunctionOfStoredActions ==
    [][\A a, b \in Fids :
          /\ a # b => PairView(user_swipes, a, b) =
                        PairView(ShortestHistory(a, b, StoredKind(a, b), StoredKind(b, a)),
                                 a, b)
          /\ (checkIfMatched(user_swipes, a, b) /\ lastKind'[<<a, b>>] = "reject")
             => /\ ~checkIfMatched(user_swipes', a, b)
                /\ ~checkIfMatched(user_swipes', b, a)
                /\ b \notin getUserMatches(user_swipes', a)
                /\ a \notin getUserMatches(user_swipes', b)
      ]_vars

\* A like was answered 'it is a match', and one of the two has since rejected
\* the other: they are connected no more, the reject's sender is a request
\* received by nobody and the other's like is pending again.
C12_Witness ==
    \E p \in Procs :
        LET a == req[p].userFid
            b == req[p].targetFid
        IN  /\ Answered(p, "swipe") /\ req[p].resp.status = 200 /\ req[p].resp.isMatch
            /\ StoredKinds(a, b) = {"like"} /\ StoredKinds(b, a) = {"reject"}
            /\ ~checkIfMatched(user_swipes, a, b)
            /\ b \in getRequestsSent(user_swipes, a)
            /\ a \in getRequestsReceived(user_swipes, b)

----------------------------------------------------------------------------
(* Claims about the read operations (SpecReads).                           *)

\* C13: the read operations getUserMatches, getRequestsSent,
\* getRequestsReceived, checkIfMatched, the ranker's getSwipedUserFids and the
\* feed leave the swipe store unchanged, at every one of their queries; a step
\* that changes the stored actions is a call of recordSwipe with a valid kind
\* on two distinct users, and it changes them as that call does.
C13_OnlyRecordSwipeWrites ==
    [][/\ (rd' # rd \/ feed' # feed) => user_swipes' = user_swipes
       /\ user_swipes' # user_swipes
          => /\ rd' = rd /\ feed' = feed
             /\ \E u \in Fids, t \in Fids, a \in {"like", "reject"} :
                   /\ u # t
                   /\ user_swipes' = recordSwipe(user_swipes, u, t, a).rows
      ]_vars

\* getRequestsReceived has run its four queries on a table of three rows and
\* returned a pending request; the table still holds the three rows.
C13_Witness ==
    /\ rd.pc = "done" /\ rd.op = "getRequestsReceived"
    /\ rd.fids # {}
    /\ getUserMatches(user_swipes, rd.userFid) # {}
    /\ Cardinality(user_swipes) = 3
    /\ started = 3

----------------------------------------------------------------------------
(* Claims about the feed's fetches (SpecFeed).                             *)

\* The casts answered by the calls of the source that did not fail, in batch order.
RECURSIVE SurvivingCasts(_, _)
SurvivingCasts(outcomes, k) ==
    IF k = 0 THEN <<>>
    ELSE SurvivingCasts(outcomes, k - 1)
             \o (IF outcomes[k].ok THEN outcomes[k].casts ELSE <<>>)

\* C14: for n >= 1 mutual connections, in one batch or several, when the fetch
\* of a batch fails the call still returns a result and raises no error, the
\* failed batch contributes no item, the items of the surviving batches are
\* returned, and metadata.batchesUsed = ceil(n / MAX_FIDS_PER_CALL).
C14_BatchFailureNeverFatal ==
    LET n         == Len(feed.matchedFids)
        surviving == SurvivingCasts(feed.outcomes, Len(feed.outcomes))
    IN  (/\ feed.pc = "done"
         /\ n >= 1
         /\ \E k \in DOMAIN feed.outcomes : ~feed.outcomes[k].ok)
        => /\ feed.resp.ok
           /\ feed.resp.batchesUsed = (n + MAX_FIDS_PER_CALL - 1) \div MAX_FIDS_PER_CALL
           /\ feed.castsBeforeFilter = Len(surviving)
           /\ feed.resp.totalCastsAvailable
                  = Len(DedupCasts(SortCasts(AuthorizedCasts(surviving, feed.matchedFids)), {}))
           /\ (StartIndex(feed.cursor) = 0 /\ feed.limit >= Len(surviving))
                  => \A c \in Range(AuthorizedCasts(surviving, feed.matchedFids)) :
                         CastHash(c) # 0
                             => \E d \in Range(feed.resp.casts) : CastHash(d) = CastHash(c)

\* C20: for n >= 1 mutual connections every connection id is sent in exactly
\* one call of the source, no call carries more than MAX_FIDS_PER_CALL ids,
\* and the number of calls, which a result reports as metadata.apiCallsMade,
\* is ceil(n / MAX_FIDS_PER_CALL); for n = 0 no call is made and the feed is
\* empty with hasMore = false.
C20_BatchesPartitionConnections ==
    LET n     == Len(feed.matchedFids)
        calls == feed.calls
        ceil  == (n + MAX_FIDS_PER_CALL - 1) \div MAX_FIDS_PER_CALL
    IN  feed.pc = "done"
        => IF n >= 1
           THEN /\ \A i \in 1..n :
                       Cardinality({<<k, j>> \in (DOMAIN calls) \X (1..n) :
                                        /\ j \in DOMAIN calls[k]
                                        /\ calls[k][j] = feed.matchedFids[i]}) = 1
                /\ \A k \in DOMAIN calls :
                       /\ Len(calls[k]) <= MAX_FIDS_PER_CALL
                       /\ Range(calls[k]) \subseteq Range(feed.matchedFids)
                /\ Len(calls) = ceil
                /\ feed.resp.ok => feed.resp.apiCallsMade = ceil
           ELSE /\ calls = <<>>
                /\ feed.resp.ok
                /\ feed.resp.casts = <<>>
                /\ ~feed.resp.hasMore
                /\ feed.resp.apiCallsMade = 0

\* A feed of two connections was fetched in two calls and answered.
C20_Witness ==
    /\ feed.pc = "done"
    /\ Len(feed.matchedFids) = 2
    /\ Len(feed.calls) = 2
    /\ feed.resp.ok
    /\ feed.resp.apiCallsMade = 2

----------------------------------------------------------------------------
(* Claims about the aggregation and its pages (SpecAgg).                   *)

\* The casts of the source that the request answers from: those of the calls
\* that did not fail, in batch order, by the authors in matchedFids.
AuthorizedFetched ==
    LET fetched == SurvivingCasts(feed.outcomes, Len(feed.outcomes))
    IN  FilterSeq(fetched, {c \in Range(fetched) : c.author \in Range(feed.matchedFids)})

\* The fully merged, filtered, sorted and deduplicated list of the request.
MergedList == NormalizeEngagement(DedupCasts(SortCasts(AuthorizedFetched), {}))

\* The pages handed to the caller so far, one after the other.
RECURSIVE ConcatPages(_)
ConcatPages(pages) ==
    IF pages = <<>> THEN <<>> ELSE Head(pages) \o ConcatPages(Tail(pages))

\* The same cast of the source, whatever the counters pass did to it.
SameCast(c, d) ==
    /\ c.author = d.author
    /\ c.hash = d.hash /\ c.thread_hash = d.thread_hash
    /\ c.timestamp = d.timestamp /\ c.created_at = d.created_at

\* C15: for fixed connections and fixed content of the source and a limit L,
\* starting without cursor and passing each nextCursor returned, the k-th
\* response holds exactly the items (k-1)*L+1 .. k*L of the merged list; more
\* is announced exactly while items remain; when no more is announced the
\* pages together are the merged list, each item once and in order; no hash
\* is on two pages.
C15_PagesTileTheMergedList ==
    LET L     == feed.limit
        pages == feed.pages
        n     == Len(MergedList)
    IN  (feed.pc = "done" /\ feed.resp.ok)
        => /\ \A k \in DOMAIN pages :
                  LET len == IF k * L <= n THEN L
                             ELSE IF (k - 1) * L < n THEN n - (k - 1) * L ELSE 0
                  IN  /\ Len(pages[k]) = len
                      /\ \A j \in 1..len : pages[k][j] = MergedList[(k - 1) * L + j]
           /\ feed.resp.hasMore <=> Len(pages) * L < n
           /\ feed.resp.hasMore => feed.resp.nextCursor.kind = "offset"
           /\ ~feed.resp.hasMore => ConcatPages(pages) = MergedList
           /\ \A k1, k2 \in DOMAIN pages :
                  k1 < k2 => \A c \in Range(pages[k1]), d \in Range(pages[k2]) :
                                 CastHash(c) # CastHash(d)

\* Three items were handed out on three pages of one item.
C15_Witness ==
    /\ feed.pc = "done" /\ feed.resp.ok
    /\ feed.limit = 1
    /\ Len(feed.pages) = 3
    /\ \A k \in 1..3 : Len(feed.pages[k]) = 1
    /\ ~feed.resp.hasMore
    /\ feed.cursor = EncodeCursor(2)

\* C16: a cursor that is absent or does not decode to JSON carrying an offset
\* never makes the request fail: the request returns exactly what it returns
\* for offset 0, the first limit items of the merged list, and it returns a
\* result whenever the fetch does not fail.
C16_BadCursorIsFirstPage ==
    (feed.pc = "done" /\ feed.cursor.kind \in {"none", "undecodable", "no_offset"})
    => /\ feed.resp = ConnectedUsersFeed(feed.matchedFids, feed.outcomes, feed.limit,
                                         EncodeCursor(0))
       /\ (Len(feed.matchedFids) > MAX_FIDS_PER_CALL \/ feed.outcomes[1].ok) => feed.resp.ok
       /\ feed.resp.ok
          => /\ Len(feed.resp.casts)
                    = (IF feed.limit < Len(MergedList) THEN feed.limit ELSE Len(MergedList))
             /\ \A j \in DOMAIN feed.resp.casts : feed.resp.casts[j] = MergedList[j]

\* A cursor that does not decode was answered with the first two of three items.
C16_Witness ==
    /\ feed.pc = "done" /\ feed.resp.ok
    /\ feed.cursor.kind = "undecodable"
    /\ Len(feed.resp.casts) = 2
    /\ feed.resp.hasMore
    /\ Len(MergedList) = 3

\* C17: the items of every response, and of the pages one after the other,
\* are in descending order of parsed timestamp, a timestamp that does not
\* parse counting as 0; such items are not dropped: once the pages are all
\* out, every authorized fetched item with a hash is among them unless an
\* authorized fetched item of the same hash comes before it in that order
\* (newer, or as old and fetched earlier).
C17_NewestFirstNothingDropped ==
    LET all   == ConcatPages(feed.pages)
        cands == AuthorizedFetched
        ts(c) == IF c.timestamp # 0 THEN c.timestamp ELSE c.created_at
    IN  (feed.pc = "done" /\ feed.resp.ok)
        => /\ \A i \in 1..(Len(all) - 1) : ts(all[i]) >= ts(all[i + 1])
           /\ \A i \in 1..(Len(feed.resp.casts) - 1) :
                  ts(feed.resp.casts[i]) >= ts(feed.resp.casts[i + 1])
           /\ ~feed.resp.hasMore
              => \A i \in DOMAIN cands :
                     (/\ CastHash(cands[i]) # 0
                      /\ ~\E j \in DOMAIN cands :
                             /\ j # i
                             /\ CastHash(cands[j]) = CastHash(cands[i])
                             /\ \/ ts(cands[j]) > ts(cands[i])
                                \/ (ts(cands[j]) = ts(cands[i]) /\ j < i))
                     => \E d \in Range(all) : SameCast(cands[i], d)

\* An item without a date that parses was fetched first and handed out last,
\* after two dated items, the older of them before it.
C17_Witness ==
    /\ feed.pc = "done" /\ feed.resp.ok /\ ~feed.resp.hasMore
    /\ Len(AuthorizedFetched) = 3
    /\ AuthorizedFetched[1].timestamp = 0
    /\ AuthorizedFetched[2].timestamp = 1
    /\ AuthorizedFetched[3].timestamp = 2
    /\ Len(ConcatPages(feed.pages)) = 3
    /\ SameCast(ConcatPages(feed.pages)[3], AuthorizedFetched[1])
    /\ SameCast(ConcatPages(feed.pages)[1], AuthorizedFetched[3])

\* C18: no two items of the merged list, hence of the pages, share a hash,
\* and among the authorized fetched items that share a hash the one kept is
\* the first in fetch order (batch, then position in the answer).
C18_FirstFetchedOfAHashIsKept ==
    LET all   == ConcatPages(feed.pages)
        cands == AuthorizedFetched
    IN  (feed.pc = "done" /\ feed.resp.ok)
        => /\ \A i, j \in DOMAIN all : i # j => CastHash(all[i]) # CastHash(all[j])
           /\ \A i \in DOMAIN all :
                  LET first == CHOOSE k \in DOMAIN cands :
                                   /\ CastHash(cands[k]) = CastHash(all[i])
                                   /\ \A m \in 1..(k - 1) :
                                          CastHash(cands[m]) # CastHash(all[i])
                  IN  SameCast(cands[first], all[i])

\* What the claim gives as the count of an item: the explicit count of the
\* source, else the length of the array, else 0.
ExpectedCount(count, array) ==
    IF count.type = "number" THEN count
    ELSE IF array.type = "array" THEN Number(array.n)
    ELSE Number(0)

\* C19: likes, recasts and replies are normalized each on its own: an
\* explicit count of the source is returned as it is, also when it differs
\* from the length of the array beside it; without count, the length of the
\* array when there is one; else 0; so each returned item has the three
\* counts defined.
C19_CountersNormalized ==
    (feed.pc = "done" /\ feed.resp.ok)
    => \A d \in Range(feed.resp.casts) :
           /\ LikesCount(d).type = "number"
           /\ RecastsCount(d).type = "number"
           /\ RepliesCount(d).type = "number"
           /\ \E c \in Range(AuthorizedFetched) :
                  /\ SameCast(c, d)
                  /\ LikesCount(d)
                         = (IF c.reactions.type = "object"
                            THEN ExpectedCount(c.reactions.likes_count, c.reactions.likes)
                            ELSE Number(0))
                  /\ RecastsCount(d)
                         = (IF c.reactions.type = "object"
                            THEN ExpectedCount(c.reactions.recasts_count, c.reactions.recasts)
                            ELSE Number(0))
                  /\ RepliesCount(d)
                         = (CASE c.replies.type = "object" ->
                                     ExpectedCount(c.replies.count, Undefined)
                              [] c.replies.type = "array" -> Number(c.replies.length)
                              [] OTHER -> Number(0))

----------------------------------------------------------------------------
(* Claims about the scorer (SpecScore).                                    *)

\* C26: the score of two personas is the same whichever of the two is the
\* requester, lists with a repeated string or with a string in two casings
\* included.
C26_ScoreIsSymmetric ==
    rank.pc = "scored" => rank.forward.score = rank.backward.score

\* C27: the score is between 0 and 100, and no category contributes more
\* than its weight: interests 30, projects 25, expertise 15, engagement 10,
\* themes 15, channels 5.
C27_ScoreAndContributionsBounded ==
    LET u == PersonaOf(personas, 1)
        m == PersonaOf(personas, 2)
        within(x, weight) == 0 <= x /\ x <= weight * 100 * Denominator
    IN  rank.pc = "scored"
        => /\ 0 <= rank.forward.score /\ rank.forward.score <= 10000
           /\ 0 <= rank.backward.score /\ rank.backward.score <= 10000
           /\ within(ListScore(u.core_interests, m.core_interests, 30), 30)
           /\ within(ListScore(u.projects_protocols, m.projects_protocols, 25), 25)
           /\ within(ExpertiseScore(u, m), 15)
           /\ within(EngagementScore(u, m), 10)
           /\ within(ListScore(u.content_themes, m.content_themes, 15), 15)
           /\ within(ListScore(u.top_channels, m.top_channels, 5), 5)

\* Two personas equal in every attribute scored 100, every category at its weight.
C27_Witness ==
    /\ rank.pc = "scored"
    /\ rank.forward.score = 10000
    /\ Len(PersonaOf(personas, 1).core_interests) = 2
    /\ ExpertiseScore(PersonaOf(personas, 1), PersonaOf(personas, 2)) = 1500 * Denominator

\* Two lists share no value, case-insensitively.
NoSharedValue(arr1, arr2) ==
    \A x \in Range(arr1), y \in Range(arr2) : Lower(x) # Lower(y)

NothingShared(u, m) ==
    /\ NoSharedValue(u.core_interests, m.core_interests)
    /\ NoSharedValue(u.projects_protocols, m.projects_protocols)
    /\ NoSharedValue(u.content_themes, m.content_themes)
    /\ NoSharedValue(u.top_channels, m.top_channels)

\* The position of a level on the scale beginner, intermediate, expert; 0 off it.
ScalePosition(level) ==
    CASE level = "beginner" -> 1
      [] level = "intermediate" -> 2
      [] level = "expert" -> 3
      [] OTHER -> 0

C29_ExpertiseHalfOnlyWhenAdjacentOnScale ==
    LET u  == PersonaOf(personas, 1)
        m  == PersonaOf(personas, 2)
        pu == ScalePosition(u.expertise_level)
        pm == ScalePosition(m.expertise_level)
    IN  rank.pc = "scored"
        => ExpertiseScore(u, m)
               = (IF u.expertise_level # "" /\ u.expertise_level = m.expertise_level
                  THEN 1500 * Denominator
                  ELSE IF pu >= 1 /\ pm >= 1 /\ Abs(pu - pm) = 1
                  THEN 750 * Denominator
                  ELSE 0)

----------------------------------------------------------------------------
(* SpecRank: matchingService.getMatchingUsers.  The tables users and       *)
(* personas are fixed at the start; the requester and one candidate swipe  *)
(* until the call has read the swipes.  The call is one step for each      *)
(* database operation it awaits.                                           *)

NumRankUsers == 4       \* users 1..NumRankUsers; user 1 asks, the others are candidates
MaxRankLimit == 3       \* page sizes asked are 1..MaxRankLimit
MaxPage == 2            \* pages asked are 1..MaxPage
MaxRankSwipes == 2      \* swipes recorded in one behaviour

\* Table users: personas.farcaster_fid references users(fid), so every persona
\* has its user.
RankFids == 1..NumRankUsers

\* The fid argument: missing, or the user who asks.
RankRequesters == {0, 1}

\* The persona of the user who asks, and the personas a candidate may have:
\* scores 0, 15 and 45 against it.
RequesterPersonas ==
    {[core_interests |-> <<"defi", "nft">>, projects_protocols |-> <<>>,
      expertise_level |-> "beginner", engagement_style |-> "",
      content_themes |-> <<>>, top_channels |-> <<>>]}

CandidatePersonas ==
    {[core_interests |-> interests, projects_protocols |-> <<>>,
      expertise_level |-> level, engagement_style |-> "",
      content_themes |-> <<>>, top_channels |-> <<>>] :
        <<interests, level>> \in {<<(<<"dao">>), "">>, <<(<<"defi">>), "">>,
                                  <<(<<"defi", "nft">>), "beginner">>}}

\* A row of table personas with its analyzed_at.
AnalyzedRow(row, analyzedAt) ==
    [column \in DOMAIN row \cup {"analyzed_at"} |->
        IF column = "analyzed_at" THEN analyzedAt ELSE row[column]]

\* .order(column, {ascending: false}): the rows, the largest value first.
RECURSIVE OrderDescending(_, _)
OrderDescending(rows, column) ==
    IF rows = {} THEN <<>>
    ELSE LET first == CHOOSE r \in rows : \A q \in rows : q[column] <= r[column]
         IN  <<first>> \o OrderDescending(rows \ {first}, column)

\* dbService.getAllPersonasExcept(excludeFid)
getAllPersonasExcept(rows, excludeFid) ==
    OrderDescending({row \in rows : row.farcaster_fid # excludeFid}, "analyzed_at")

\* Mutant: only the likes are read.
getSwipedUserFidsLikesOnly(rows, userFid) ==
    Select(rows, {r \in rows : r.user_fid = userFid /\ r.action = "like"}, "target_fid").data

\* dbService.getSwipedUserFids(userFid)
getSwipedUserFids(rows, userFid) ==
    Select(rows, {r \in rows : r.user_fid = userFid}, "target_fid").data

\* dbService.getUserByFid(fid): the row, {} for null
getUserByFid(fid) == {user \in RankFids : user = fid}

\* Mutant: ascending order of score.
InsertByScoreAscending(sorted, match) ==
    LET k == Cardinality({i \in DOMAIN sorted : sorted[i].score <= match.score})
    IN  SubSeq(sorted, 1, k) \o <<match>> \o SubSeq(sorted, k + 1, Len(sorted))

\* One element put in its place in a list sorted by (a, b) => b.score - a.score,
\* after the elements that compare equal to it.
InsertByScore(sorted, match) ==
    LET k == Cardinality({i \in DOMAIN sorted : sorted[i].score >= match.score})
    IN  SubSeq(sorted, 1, k) \o <<match>> \o SubSeq(sorted, k + 1, Len(sorted))

\* actualMatches.sort((a, b) => b.score - a.score): a stable sort
RECURSIVE SortByScore(_)
SortByScore(matches) ==
    IF matches = <<>> THEN <<>>
    ELSE InsertByScore(SortByScore(SubSeq(matches, 1, Len(matches) - 1)),
                       matches[Len(matches)])

\* allPersonas.map(persona => ({persona, ...calculateMatchScore(userPersona, persona)}))
MatchesWithScores(userPersona, allPersonas) ==
    [i \in DOMAIN allPersonas |->
        LET matchResult == calculateMatchScore(userPersona, allPersonas[i])
        IN  [persona |-> allPersonas[i], score |-> matchResult.score,
             matchingKeywords |-> matchResult.matchingKeywords]]

\* Mutant: the whole limit is asked of the backfill.
NeededRandomWholeLimit(limit, paginatedMatches) == limit

\* neededRandom
NeededRandom(limit, paginatedMatches) == limit - Len(paginatedMatches)

\* nonMatchingPersonas.sort(() => Math.random() - 0.5): the orders it can give
Shuffles(matches) ==
    {shuffled \in [DOMAIN matches -> Range(matches)] : Range(shuffled) = Range(matches)}

\* The matches of score 0 that a backfill is drawn from.
NonMatchingPersonas(matchesWithScores, matchedFids) ==
    SelectSeq(SelectSeq(matchesWithScores, LAMBDA match : match.score = 0),
              LAMBDA match : match.persona.farcaster_fid \notin matchedFids)

\* randomMatches: the first neededRandom of a shuffle, as matches of score 0
RandomMatches(shuffledNonMatches, neededRandom) ==
    LET randomPersonas == Slice(shuffledNonMatches, 0, neededRandom)
    IN  [i \in DOMAIN randomPersonas |->
            [persona |-> randomPersonas[i].persona, score |-> 0,
             matchingKeywords |-> NoKeywords]]

\* Mutant: the total counts the matches of score > 0 alone.
TotalCountMatchesOnly(matchesWithScores) ==
    Len(SelectSeq(matchesWithScores, LAMBDA match : match.score > 0))

\* totalCount
TotalCount(matchesWithScores) ==
    Len(SelectSeq(matchesWithScores, LAMBDA match : match.score > 0))
      + Len(SelectSeq(matchesWithScores, LAMBDA match : match.score = 0))

\* Math.ceil(totalCount / limit)
TotalPages(totalCount, limit) == (totalCount + limit - 1) \div limit

\* matchedUsers without the nulls
ValidMatches(paginatedMatches) ==
    LET found == SelectSeq(paginatedMatches,
                           LAMBDA match : getUserByFid(match.persona.farcaster_fid) # {})
    IN  [i \in DOMAIN found |->
            [fid |-> found[i].persona.farcaster_fid,
             match_score |-> found[i].score,
             matching_keywords |-> found[i].matchingKeywords,
             expertise_level |-> found[i].persona.expertise_level,
             engagement_style |-> found[i].persona.engagement_style]]

RankThrow(r, message) ==
    [r EXCEPT !.pc = "done", !.ok = FALSE,
              !.error = "Failed to get matching users: " \o message]

\* getMatchingUsers(fid, page, limit) up to the answer of getPersonaByFid.
RankBegin(fid, page, limit) ==
    /\ rank.pc = "idle"
    /\ LET r    == [IdleRank EXCEPT !.fid = fid, !.page = page, !.limit = limit,
                                    !.atCall = user_swipes]
           data == {row \in personas : row.farcaster_fid = fid}
       IN  rank' = IF fid = 0
                   THEN RankThrow(r, "FID is required")
                   ELSE IF data = {}
                   THEN RankThrow(r, "User persona not found. Please create persona first.")
                   ELSE [r EXCEPT !.pc = "swiped", !.userPersona = data]
    /\ UNCHANGED <<storeVars, pointsVars, req, started, feed, rd, personas, serviceVars>>

\* The answer of getSwipedUserFids.
RankSwiped ==
    /\ rank.pc = "swiped"
    /\ rank' = [rank EXCEPT !.pc = "personas",
                            !.swipedFids = getSwipedUserFids(user_swipes, rank.fid),
                            !.atRead = user_swipes]
    /\ UNCHANGED <<storeVars, pointsVars, req, started, feed, rd, personas, serviceVars>>

\* The answer of getAllPersonasExcept, the scores, the page of matches and
\* its backfill.
RankPersonas ==
    /\ rank.pc = "personas"
    /\ LET userPersona == PersonaOf(rank.userPersona, rank.fid)
           allPersonas == SelectSeq(getAllPersonasExcept(personas, rank.fid),
                              LAMBDA persona : persona.farcaster_fid \notin rank.swipedFids)
           matchesWithScores == MatchesWithScores(userPersona, allPersonas)
           actualMatches == SortByScore(SelectSeq(matchesWithScores,
                                                  LAMBDA match : match.score > 0))
           startIndex == (rank.page - 1) * rank.limit
           endIndex == startIndex + rank.limit
           paginatedMatches == Slice(actualMatches, startIndex, endIndex)
           matchedFids == {rank.fid} \cup rank.swipedFids
                            \cup {paginatedMatches[i].persona.farcaster_fid :
                                    i \in DOMAIN paginatedMatches}
           neededRandom == NeededRandom(rank.limit, paginatedMatches)
           nonMatchingPersonas == NonMatchingPersonas(matchesWithScores, matchedFids)
       IN  IF allPersonas = <<>>
           THEN rank' = [rank EXCEPT !.pc = "done", !.matches = <<>>,
                                     !.total = 0, !.totalPages = 0]
           ELSE IF Len(paginatedMatches) < rank.limit
           THEN \E shuffledNonMatches \in Shuffles(nonMatchingPersonas) :
                    rank' = [rank EXCEPT
                                !.pc = "users", !.allPersonas = allPersonas,
                                !.matches = paginatedMatches
                                    \o RandomMatches(shuffledNonMatches, neededRandom)]
           ELSE rank' = [rank EXCEPT !.pc = "users", !.allPersonas = allPersonas,
                                     !.matches = paginatedMatches]
    /\ UNCHANGED <<storeVars, pointsVars, req, started, feed, rd, personas, serviceVars>>

\* The answers of getUserByFid, and the result.
RankUsers ==
    /\ rank.pc = "users"
    /\ LET matchesWithScores ==
               MatchesWithScores(PersonaOf(rank.userPersona, rank.fid), rank.allPersonas)
           totalCount == TotalCount(matchesWithScores)
       IN  rank' = [rank EXCEPT !.pc = "done",
                                !.matches = ValidMatches(rank.matches),
                                !.total = totalCount,
                                !.totalPages = TotalPages(totalCount, rank.limit)]
    /\ UNCHANGED <<storeVars, pointsVars, req, started, feed, rd, personas, serviceVars>>

\* A swipe recorded before the call, or during it before it has read the
\* swipes.
SwipeDuringRank(userFid, targetFid, action) ==
    /\ rank.pc \in {"idle", "swiped"}
    /\ started < MaxRankSwipes
    /\ started' = started + 1
    /\ RecordSwipeStep(userFid, targetFid, action)
    /\ UNCHANGED <<pointsVars, req, feed, rd, rankVars, serviceVars>>

\* Every candidate has no persona or one of CandidatePersonas, analyzed in the
\* order of the fids; the user who asks has a persona or none.
InitRank ==
    /\ \E requester \in SUBSET RequesterPersonas :
       \E candidates \in [RankFids \ {1} -> CandidatePersonas \cup {<<>>}] :
          /\ Cardinality(requester) <= 1
          /\ requester = {} => \A fid \in RankFids \ {1} :
                                   candidates[fid] = candidates[NumRankUsers]
          /\ personas =
                {AnalyzedRow(PersonaRow(1, p), 1) : p \in requester}
                  \cup {AnalyzedRow(PersonaRow(fid, candidates[fid]), fid) :
                          fid \in {f \in RankFids \ {1} : candidates[f] # <<>>}}
    /\ rank = IdleRank
    /\ IdleServices
    /\ user_swipes = {}
    /\ lastKind = [p \in RankFids \X RankFids |-> "none"]
    /\ reissued = FALSE
    /\ scores = {[profile_id |-> getProfileIdByFid(1), total_points |-> InitPoints]}
    /\ point_events = {}
    /\ req = [p \in Procs |-> IdleReq]
    /\ started = 0
    /\ feed = IdleFeed
    /\ rd = IdleRead

NextRank ==
    \/ \E fid \in RankRequesters, page \in 1..MaxPage, limit \in 1..MaxRankLimit :
           RankBegin(fid, page, limit)
    \/ RankSwiped
    \/ RankPersonas
    \/ RankUsers
    \/ \E targetFid \in RankFids \ {1}, action \in {"like", "reject"} :
           SwipeDuringRank(1, targetFid, action)
    \/ \E action \in {"like", "reject"} : SwipeDuringRank(2, 1, action)

SpecRank == InitRank /\ [][NextRank]_vars

----------------------------------------------------------------------------
(* Claims about the ranker (SpecRank).                                     *)

\* The call has returned a result.
RankReturned == rank.pc = "done" /\ rank.ok

\* The fids toward whom userFid has a row in 'rows'.
ActedOn(rows, userFid) == {r.target_fid : r \in {q \in rows : q.user_fid = userFid}}

\* The personas left after the exclusions, by the swipes the call read.
Eligible ==
    {row \in personas : /\ row.farcaster_fid # rank.fid
                        /\ row.farcaster_fid \notin ActedOn(rank.atRead, rank.fid)}

ScoreAgainst(row) == calculateMatchScore(PersonaOf(personas, rank.fid), row).score

Scored == {row \in Eligible : ScoreAgainst(row) > 0}
Unscored == {row \in Eligible : ScoreAgainst(row) = 0}

FidsOf(rows) == {row.farcaster_fid : row \in rows}
ReturnedFids == {rank.matches[i].fid : i \in DOMAIN rank.matches}
Smaller(a, b) == IF a < b THEN a ELSE b

\* C21: with M candidates of score > 0 and U of score 0 after the
\* exclusions, page 1 with page size L returns exactly min(L, M + U) distinct
\* candidates: first the min(L, M) highest-scoring matches, then candidates
\* of score 0, none of them among the matches.
C21_PageOneQuota ==
    LET M == Cardinality(Scored)
        U == Cardinality(Unscored)
        L == rank.limit
        n == Smaller(L, M)
        firstFids == {rank.matches[i].fid : i \in 1..n}
    IN  (RankReturned /\ rank.page = 1)
        => /\ Len(rank.matches) = Smaller(L, M + U)
           /\ Cardinality(ReturnedFids) = Len(rank.matches)
           /\ \A i \in 1..n :
                 /\ rank.matches[i].fid \in FidsOf(Scored)
                 /\ rank.matches[i].match_score > 0
                 /\ \A row \in Scored :
                        row.farcaster_fid \notin firstFids
                            => ScoreAgainst(row) <= rank.matches[i].match_score
           /\ \A i \in (n + 1)..Len(rank.matches) :
                 /\ rank.matches[i].fid \in FidsOf(Unscored)
                 /\ rank.matches[i].match_score = 0
                 /\ rank.matches[i].fid \notin firstFids

\* One match and two candidates of score 0, a page of two: the match and one
\* of the two.
C21_Witness ==
    /\ RankReturned /\ rank.page = 1 /\ rank.limit = 2
    /\ Cardinality(Scored) = 1 /\ Cardinality(Unscored) = 2
    /\ Len(rank.matches) = 2
    /\ rank.matches[2].match_score = 0

\* C22: the candidates returned to U never include U nor a user toward whom
\* U had a stored action, like or reject, when the call was made; for the
\* matches and for the backfill alike.
C22_NoSelfNoSwiped ==
    RankReturned
    => \A i \in DOMAIN rank.matches :
          /\ rank.matches[i].fid # rank.fid
          /\ rank.matches[i].fid \notin ActedOn(rank.atCall, rank.fid)

\* A like and a reject stored toward two users who have a persona, and a
\* third user returned.
C22_Witness ==
    /\ RankReturned
    /\ rank.matches # <<>>
    /\ \E like \in rank.atCall, reject \in rank.atCall :
          /\ like.user_fid = rank.fid /\ like.action = "like"
          /\ reject.user_fid = rank.fid /\ reject.action = "reject"
          /\ {like.target_fid, reject.target_fid} \subseteq FidsOf(personas)

\* The place of a candidate of score > 0 in the list sorted by score, highest
\* first, equal scores in the order the table gave them.
PlaceOf(row) ==
    1 + Cardinality({other \in Scored :
                        \/ ScoreAgainst(other) > ScoreAgainst(row)
                        \/ /\ ScoreAgainst(other) = ScoreAgainst(row)
                           /\ other.analyzed_at > row.analyzed_at})

\* C23: in a page the candidates of score > 0 come before the backfill of
\* score 0, in non-increasing score, and the matches of page p are the entries
\* (p-1)*L+1 .. p*L of the sorted list of matches.
C23_MatchesFirstSortedAndPaged ==
    LET startIndex == (rank.page - 1) * rank.limit
        onPage == {row \in Scored : /\ PlaceOf(row) > startIndex
                                    /\ PlaceOf(row) <= startIndex + rank.limit}
        k == Cardinality(onPage)
    IN  RankReturned
        => /\ k <= Len(rank.matches)
           /\ \A i \in 1..k :
                 /\ rank.matches[i].match_score > 0
                 /\ \E row \in onPage : /\ row.farcaster_fid = rank.matches[i].fid
                                        /\ PlaceOf(row) = startIndex + i
                                        /\ ScoreAgainst(row) = rank.matches[i].match_score
           /\ \A i \in (k + 1)..Len(rank.matches) : rank.matches[i].match_score = 0
           /\ \A i \in 1..(Len(rank.matches) - 1) :
                 rank.matches[i].match_score >= rank.matches[i + 1].match_score

\* Page 2 of pages of one: the second of two matches of different scores.
C23_Witness ==
    /\ RankReturned /\ rank.page = 2 /\ rank.limit = 1
    /\ Len(rank.matches) = 1
    /\ rank.matches[1].match_score > 0
    /\ \E row \in Scored : ScoreAgainst(row) > rank.matches[1].match_score

\* C24: pagination.total is the number of candidates of score > 0 plus the
\* number of score 0 after the exclusions, whatever the page, and totalPages
\* is ceil(total / limit).
C24_TotalCountsAllCandidates ==
    RankReturned
    => /\ rank.total = Cardinality(Scored) + Cardinality(Unscored)
       /\ rank.totalPages * rank.limit >= rank.total
       /\ (rank.totalPages - 1) * rank.limit < rank.total \/ rank.total = 0
       /\ rank.total = 0 => rank.totalPages = 0

\* Three candidates in pages of two, page 2 asked: total 3, 2 pages.
C24_Witness ==
    /\ RankReturned /\ rank.page = 2 /\ rank.limit = 2
    /\ rank.total = 3 /\ rank.totalPages = 2
    /\ Cardinality(Scored) = 2

\* C25: the call fails when the user who asks has no persona; a user who has
\* no persona and toward whom the requester has no stored action is eligible
\* as backfill of score 0, so a page that is not full holds every such user.
C25_NoPersonaStillBackfill ==
    (rank.pc = "done" /\ rank.fid # 0)
    => /\ rank.fid \notin FidsOf(personas) => ~rank.ok
       /\ (rank.ok /\ Len(rank.matches) < rank.limit)
            => \A fid \in RankFids :
                  (/\ fid # rank.fid
                   /\ fid \notin FidsOf(personas)
                   /\ fid \notin ActedOn(user_swipes, rank.fid))
                  => fid \in ReturnedFids

----------------------------------------------------------------------------
(* Claim about the rewards of the accept controller (SpecCtl).             *)

\* C30: a successful accept rewards both users: when the accepting user and
\* the requester both have a profile in the points database, a
\* 'connection_request_accepted' event of 200 points is recorded for each of
\* the two and each is answered a balance 200 higher.
C30_AcceptRewardsBothUsers ==
    \A p \in Procs :
        LET r == req[p]
            sourceId == ConnectionSourceId(RowId(r.resp.swipe), r.userFid, r.targetFid)
        IN  (/\ r.op = "accept" /\ r.pc = "done" /\ r.action = "accept"
             /\ r.resp.status = 200
             /\ getProfileIdByFid(r.userFid) # 0
             /\ getProfileIdByFid(r.targetFid) # 0)
            => \A fid \in {r.userFid, r.targetFid} :
                  /\ \E e \in point_events :
                        /\ e.profile_id = getProfileIdByFid(fid)
                        /\ e.rule_key = "connection_request_accepted"
                        /\ e.delta = AcceptPoints
                        /\ e.source_id = sourceId
                  /\ \E reward \in r.resp.points :
                        /\ reward.fid = fid
                        /\ reward.newBalance = reward.previousBalance + AcceptPoints

----------------------------------------------------------------------------
(* Claims about the points of the two controllers (SpecCtl).               *)

\* The step is one of the swipe request in slot p.
SwipeStepOf(p) ==
    /\ req[p].op = "swipe"
    /\ req[p].pc \notin {"idle", "done"}
    /\ req'[p] # req[p]

InitialPoints(profileId) ==
    IF profileId = getProfileIdByFid(1) THEN InitPoints ELSE 0

RECURSIVE SumOfDeltas(_)
SumOfDeltas(events) ==
    IF events = {} THEN 0
    ELSE LET e == CHOOSE x \in events : TRUE
         IN  e.delta + SumOfDeltas(events \ {e})

\* C32: points are deducted or rewarded once per action: at most one point
\* event is recorded for a (rule_key, source_id), and total_points is changed
\* at most once for it, however often the same swipe or the same accept is
\* submitted: the balance of a profile is its balance at the start plus the
\* deltas of some of its recorded events, each counted once.
C32_OncePerRuleAndSource ==
    /\ \A e \in point_events, f \in point_events :
          (e.rule_key = f.rule_key /\ e.source_id = f.source_id) => e = f
    /\ \A fid \in ProfiledFids :
          LET profileId == getProfileIdByFid(fid)
              mine == {e \in point_events : e.profile_id = profileId}
          IN  \E applied \in SUBSET mine :
                  getCurrentPoints(scores, fid)
                      = InitialPoints(profileId) + SumOfDeltas(applied)

\* The same accept was submitted twice and answered 200 twice; one event
\* was recorded and one balance raised.
C32_Witness ==
    /\ \E p \in Procs, q \in Procs :
          /\ p # q
          /\ req[p].op = "accept" /\ req[p].pc = "done" /\ req[p].action = "accept"
          /\ req[p].resp.status = 200
          /\ req[q].op = "accept" /\ req[q].pc = "done" /\ req[q].action = "accept"
          /\ req[q].resp.status = 200
          /\ req[p].userFid = req[q].userFid /\ req[p].targetFid = req[q].targetFid
          /\ req[p].userFid \in ProfiledFids /\ req[p].targetFid \in ProfiledFids
    /\ Cardinality({e \in point_events : e.rule_key = "connection_request_accepted"}) = 1

\* C33: a deduction is applied only when the stored balance is at least the
\* amount, so total_points is never negative, two concurrent deductions for
\* the same user included.
C33_BalanceNeverNegative ==
    \A row \in scores : row.total_points >= 0

----------------------------------------------------------------------------
(* SpecLedger: the requests of the two controllers one after another, each *)
(* statement sent to the points database answered or failed (the client    *)
(* throws: connection lost, statement refused).                            *)

\* A request starts when no other is in flight.
NoneInFlight == \A q \in Procs : req[q].pc \in {"idle", "done"}

SwipeBeginAlone(p, userFid, targetFid, action) ==
    /\ NoneInFlight
    /\ SwipeBegin(p, userFid, targetFid, action)

AcceptBeginAlone(p, userFid, targetFid, action) ==
    /\ NoneInFlight
    /\ AcceptBegin(p, userFid, targetFid, action)

\* deductPoints: the statement it awaits throws; the controller catches it and
\* goes on to checkIfMatched with pointsDeducted unset.
SwipeDeductFails(p) ==
    LET r == req[p]
    IN  /\ r.op = "swipe" /\ r.pc \in {"deduct_read", "deduct_insert", "deduct_update"}
        /\ SetReq(p, [r EXCEPT !.pc = "check1", !.prev = 0], FALSE)
        /\ UNCHANGED <<rd, feed, storeVars, pointsVars, started, rankVars, serviceVars>>

\* addPoints: the statement it awaits throws; .catch turns the call into null.
AcceptRewardFails(p, side) ==
    LET r     == req[p]
        state == IF side = "user" THEN r.rwUser ELSE r.rwTarget
        r2    == [r EXCEPT !.rwUser = IF side = "user" THEN "failed" ELSE @,
                           !.rwTarget = IF side = "target" THEN "failed" ELSE @]
    IN  /\ r.op = "accept" /\ r.pc = "rewards"
        /\ state \in {"read", "insert", "update"}
        /\ SetReq(p,
                  IF r2.rwUser \in {"ok", "failed"} /\ r2.rwTarget \in {"ok", "failed"}
                  THEN Respond(r, 200, "",
                               IF r.isMatch THEN "You are now connected!"
                               ELSE "Request accepted. Waiting for their response.",
                               r.isMatch, r.swipe, r2.rewards)
                  ELSE r2,
                  FALSE)
        /\ UNCHANGED <<rd, feed, storeVars, pointsVars, started, rankVars, serviceVars>>

NextLedger ==
    \/ \E p \in Procs, userFid \in Fids, targetFid \in Fids, action \in SwipeInputs :
           SwipeBeginAlone(p, userFid, targetFid, action)
    \/ \E p \in Procs : SwipeUpsert(p)
    \/ \E p \in Procs : SwipeDeductRead(p)
    \/ \E p \in Procs : SwipeDeductInsert(p)
    \/ \E p \in Procs : SwipeDeductUpdate(p)
    \/ \E p \in Procs : SwipeDeductFails(p)
    \/ \E p \in Procs : SwipeCheck1(p)
    \/ \E p \in Procs : SwipeCheck2(p)
    \/ \E p \in Procs, userFid \in Fids, targetFid \in Fids, action \in AcceptInputs :
           AcceptBeginAlone(p, userFid, targetFid, action)
    \/ \E p \in Procs : AcceptReceived(p)
    \/ \E p \in Procs : AcceptUmLikes(p)
    \/ \E p \in Procs : AcceptUmMutual(p)
    \/ \E p \in Procs : AcceptMyLikes(p)
    \/ \E p \in Procs : AcceptUpsert(p)
    \/ \E p \in Procs : AcceptCheck1(p)
    \/ \E p \in Procs : AcceptCheck2(p)
    \/ \E p \in Procs, side \in {"user", "target"} : AcceptReward(p, side)
    \/ \E p \in Procs, side \in {"user", "target"} : AcceptRewardFails(p, side)

SpecLedger == Init /\ [][NextLedger]_vars

\* C40: the ledger is consistent.  When every call has ended, with or
\* without a failure, total_points of every profile is its value at the start
\* plus the deltas of the point events recorded for it; and the newBalance a
\* call returns is the stored total_points right after its update.
C40_LedgerConsistent ==
    /\ [](NoneInFlight
            => \A fid \in ProfiledFids :
                  getCurrentPoints(scores, fid)
                      = InitialPoints(getProfileIdByFid(fid))
                          + SumOfDeltas({e \in point_events :
                                            e.profile_id = getProfileIdByFid(fid)}))
    /\ [][\A p \in Procs :
            (req'[p].pc # "done" /\ req'[p].rewards # req[p].rewards)
            => \A reward \in req'[p].rewards \ req[p].rewards :
                  reward.newBalance = getCurrentPoints(scores', reward.fid)]_vars

----------------------------------------------------------------------------
(* Claim about two opposite likes handled together (SpecCtl).              *)

\* Slots p and q have answered 200 to the likes of a pair toward each other,
\* and no other request was started.
OppositeLikesAnswered(p, q) ==
    /\ p # q
    /\ started = 2
    /\ Answered(p, "swipe") /\ req[p].action = "like" /\ req[p].resp.status = 200
    /\ Answered(q, "swipe") /\ req[q].action = "like" /\ req[q].resp.status = 200
    /\ req[q].userFid = req[p].targetFid
    /\ req[q].targetFid = req[p].userFid

\* C39: when (A likes B) and (B likes A) are handled concurrently by the swipe
\* controller and nothing else writes the pair, at least one of the two
\* responses has isMatch = true, for every interleaving of their steps.
C39_OneOfTwoLikesSeesTheMatch ==
    \A p \in Procs, q \in Procs :
        OppositeLikesAnswered(p, q) => req[p].resp.isMatch \/ req[q].resp.isMatch

\* Both upserts came before both match checks: both responses report the match.
C39_Witness ==
    \E p \in Procs, q \in Procs :
        /\ OppositeLikesAnswered(p, q)
        /\ req[p].resp.isMatch /\ req[q].resp.isMatch

----------------------------------------------------------------------------
(* Claim about the three derived sets of a user (Spec).                    *)

\* C37: on every table the swipes can build and for every user U, the sets
\* getRequestsSent(U), getRequestsReceived(U) and getUserMatches(U), each
\* read with no write between its queries, are pairwise disjoint, none holds
\* U, and their union is the set of users x with U likes x or x likes U.
C37_DerivedSetsPartitionTheLikes ==
    \A U \in Fids :
        LET sent     == getRequestsSent(user_swipes, U)
            received == getRequestsReceived(user_swipes, U)
            matches  == getUserMatches(user_swipes, U)
        IN  /\ sent \cap received = {}
            /\ sent \cap matches = {}
            /\ received \cap matches = {}
            /\ U \notin sent \cup received \cup matches
            /\ sent \cup received \cup matches
                 = {x \in Fids : \E r \in user_swipes :
                                    /\ r.action = "like"
                                    /\ \/ r.user_fid = U /\ r.target_fid = x
                                       \/ r.user_fid = x /\ r.target_fid = U}

\* A user with a connection and a request received from a user they rejected;
\* the connection has a request sent to that user.
C37_Witness ==
    /\ getUserMatches(user_swipes, 1) = {2}
    /\ getRequestsReceived(user_swipes, 1) = {3}
    /\ getRequestsSent(user_swipes, 2) = {3}
    /\ \E r \in user_swipes : r.user_fid = 1 /\ r.target_fid = 3 /\ r.action = "reject"

----------------------------------------------------------------------------
(* SpecRace: one getUserMatches call at a time, and calls of               *)
(* dbService.recordSwipe before it and between its two queries.            *)

\* A swipe; when it falls between the two queries of the call, the history
\* takes the connections of the user on the table before and after it.
SwipeDuringRead(userFid, targetFid, action) ==
    /\ rd.pc \in {"idle", "um_mutual"}
    /\ started < MaxSwipes
    /\ started' = started + 1
    /\ RecordSwipeStep(userFid, targetFid, action)
    /\ rd' = IF rd.pc = "um_mutual"
             THEN [rd EXCEPT !.connected = @ \cup getUserMatches(user_swipes, rd.userFid)
                                             \cup getUserMatches(user_swipes', rd.userFid)]
             ELSE rd
    /\ UNCHANGED <<pointsVars, req, feed, rankVars, serviceVars>>

NextRace ==
    \/ \E userFid \in Fids, targetFid \in Fids, action \in SwipeInputs :
           SwipeDuringRead(userFid, targetFid, action)
    \/ \E userFid \in Fids : ReadBegin("getUserMatches", userFid, 0)
    \/ ReadUmMutual
    \/ ReadEnd

SpecRace == Init /\ [][NextRace]_vars

\* C38: every fid getUserMatches returns for U was a mutual connection of U
\* (U likes x and x likes U both stored) on at least one table between the
\* start and the end of the call, recordSwipe calls between its two queries
\* included.
C38_ReturnedWereConnected ==
    [][(rd.op = "getUserMatches" /\ rd.pc = "um_mutual" /\ rd'.pc = "done")
         => rd'.fids \subseteq rd.connected \cup getUserMatches(user_swipes, rd.userFid)]_vars

----------------------------------------------------------------------------
(* SpecCursor: the pages of a feed asked with a cursor the client built:   *)
(* an offset that is a number, or a string of digits.  The content of the  *)
(* source is fixed, as in SpecAgg.                                         *)

ClientCursors ==
    {EncodeCursor(o) : o \in 0..MaxOffset}
        \cup {TextOffsetCursor(<<d>>) : d \in 0..MaxOffset}

InitCursor ==
    /\ \E m \in {<<2>>, <<2, 3>>}, l \in 1..MaxLimit, c \in ClientCursors :
           \E o \in AggOutcomes(IF Len(m) > MAX_FIDS_PER_CALL
                                 THEN NumBatches(m) ELSE 1) :
               feed = AggRequest(m, o, l, c)
    /\ user_swipes = ConnectedStore(feed.userFid, feed.matchedFids)
    /\ lastKind = ConnectedKinds(feed.userFid, feed.matchedFids)
    /\ reissued = FALSE
    /\ scores = {[profile_id |-> getProfileIdByFid(1), total_points |-> InitPoints]}
    /\ point_events = {}
    /\ req = [p \in Procs |-> IdleReq]
    /\ started = 0
    /\ rd = IdleRead
    /\ personas = {}
    /\ rank = IdleRank
    /\ IdleServices

SpecCursor == InitCursor /\ [][NextAgg]_vars

\* The offset a cursor carries, as a number; 0 when it carries none.
OffsetOf(cursor) ==
    IF cursor.kind = "offset" THEN cursor.offset
    ELSE IF cursor.kind = "text_offset" THEN ToNumber(cursor.offset)
    ELSE 0

\* C35: in every feed response nextCursor is non-null exactly when hasMore is
\* true, exactly when offset + limit < total merged items; the cursor returned
\* stands for offset + limit; at most limit items are returned; and following
\* nextCursor reaches hasMore = false within ceil(total / limit) requests (one
\* request when there is no item).
C35_CursorIffMoreAndPageWithinLimit ==
    LET resp   == feed.resp
        total  == resp.totalCastsAvailable
        offset == OffsetOf(feed.cursor)
    IN  (feed.pc = "done" /\ resp.ok /\ feed.matchedFids # <<>>)
        => /\ (resp.nextCursor # NoCursor) = resp.hasMore
           /\ resp.hasMore = (offset + feed.limit < total)
           /\ resp.hasMore => OffsetOf(resp.nextCursor) = offset + feed.limit
           /\ Len(resp.casts) <= feed.limit
           /\ (Len(feed.pages) - 1) * feed.limit < total \/ Len(feed.pages) = 1

----------------------------------------------------------------------------
(* notificationService: the rate limit of sendNotification.  The Map       *)
(* notificationCache is a set of entries [key, timestamp] with at most one *)
(* entry per key.  A call runs from its start to the publish call without  *)
(* an await, so it is one step; the answer of the publish call is another. *)

MaxTicks == 2           \* the clock advances up to MaxTicks times
MaxNotifyCalls == 3     \* sendNotification is called up to MaxNotifyCalls times
CooldownSeconds == 30
OneHour == 3600000      \* 60 * 60 * 1000 ms

\* The advances of the clock, in ms: one short of the cooldown together with
\* the one completing it, and just over the hour of the sweep.
ClockSteps == {1, 29999, OneHour + 1}

NoType == ""            \* type = null
NoRelated == 0          \* relatedFid = null
NotifyTypes == {NoType, "connection_request"}
NotifyFids == 1..2
RelatedFids == {NoRelated, 3}

\* targetFids: one fid, or an array of fids
TargetInputs ==
    {[array |-> FALSE, fids |-> <<f>>] : f \in NotifyFids}
        \cup {[array |-> TRUE, fids |-> a] : a \in {<<>>, <<1, 1>>, <<1, 2>>}}

\* `${type}:${fid}:${relatedFid}`, and `${type}:${fid}` without relatedFid
getCacheKey(type, fid, relatedFid) ==
    IF relatedFid # NoRelated THEN <<type, fid, relatedFid>> ELSE <<type, fid>>

\* Mutant: every notification may be sent.
canSendNotificationAlways(cache, cacheKey, t, cooldownSeconds) == TRUE

\* canSendNotification at clock t: (t - cached.timestamp) / 1000 >= cooldownSeconds
canSendNotification(cache, cacheKey, t, cooldownSeconds) ==
    LET cached == {e \in cache : e.key = cacheKey}
    IN  IF cached = {} THEN TRUE
        ELSE \A e \in cached : t - e.timestamp >= cooldownSeconds * 1000

\* notificationCache.set(cacheKey, {timestamp: Date.now()})
CacheSet(cache, cacheKey, t) ==
    {e \in cache : e.key # cacheKey} \cup {[key |-> cacheKey, timestamp |-> t]}

\* recordNotification at clock t: set the entry, then delete the entries
\* older than one hour
recordNotification(cache, cacheKey, t) ==
    {e \in CacheSet(cache, cacheKey, t) : ~(e.timestamp < t - OneHour)}

\* The loop of sendNotification over fidsArray from position i on:
\* the fids to notify and the cache after it.
RECURSIVE FilterFids(_, _, _, _, _, _)
FilterFids(fidsArray, i, type, relatedFid, cache, t) ==
    IF i > Len(fidsArray) THEN [fidsToNotify |-> <<>>, cache |-> cache]
    ELSE LET fid      == fidsArray[i]
             cacheKey == getCacheKey(type, fid, relatedFid)
             send     == type = NoType
                            \/ canSendNotification(cache, cacheKey, t, CooldownSeconds)
             cache1   == IF type # NoType /\ send
                         THEN recordNotification(cache, cacheKey, t) ELSE cache
             rest     == FilterFids(fidsArray, i + 1, type, relatedFid, cache1, t)
         IN  [fidsToNotify |-> IF send THEN <<fid>> \o rest.fidsToNotify
                               ELSE rest.fidsToNotify,
              cache |-> rest.cache]

\* The result of a call that did not reach the publish call.
NotifyFailure(message, skipped) ==
    [success |-> FALSE, message |-> message, sent |-> 0, skipped |-> skipped]

\* History: the ordinal, among the hand-overs for its key, of the hand-over
\* of position i of fidsToNotify.
NthHandOver(fidsToNotify, i, type, relatedFid) ==
    LET cacheKey == getCacheKey(type, fidsToNotify[i], relatedFid)
    IN  Cardinality({h \in notified.handed : h.key = cacheKey})
            + Cardinality({j \in 1..i :
                  getCacheKey(type, fidsToNotify[j], relatedFid) = cacheKey})

\* sendNotification up to its await: the loop, the payload (title.substring
\* throws when title is no string) and the publish call with fidsToNotify.
SendNotification(targetFids, type, relatedFid, titleOk) ==
    LET fidsArray == targetFids.fids
        loop      == FilterFids(fidsArray, 1, type, relatedFid, notificationCache, now)
        handsOver == Len(fidsArray) > 0 /\ Len(loop.fidsToNotify) > 0 /\ titleOk
        call      == notified.calls + 1
    IN  /\ notified.calls < MaxNotifyCalls
        /\ notificationCache' =
               IF Len(fidsArray) = 0 THEN notificationCache ELSE loop.cache
        /\ notified' =
               [notified EXCEPT
                  !.calls = call,
                  !.swept = @ \/ (Len(fidsArray) > 0
                                    /\ \E e \in notificationCache :
                                          \A d \in loop.cache : d.key # e.key),
                  !.limited = @ \/ Len(loop.fidsToNotify) < Len(fidsArray),
                  !.pending =
                      IF handsOver
                      THEN @ \cup {[sent |-> Len(loop.fidsToNotify),
                                    skipped |-> Len(fidsArray) - Len(loop.fidsToNotify),
                                    failed |-> IF targetFids.array
                                               THEN Len(fidsArray) ELSE 1]}
                      ELSE @,
                  !.handed =
                      IF handsOver /\ type # NoType
                      THEN @ \cup {[key |-> getCacheKey(type, loop.fidsToNotify[i], relatedFid),
                                    at |-> now,
                                    nth |-> NthHandOver(loop.fidsToNotify, i, type,
                                                        relatedFid)]
                                      : i \in DOMAIN loop.fidsToNotify}
                      ELSE @,
                  !.resp =
                      IF Len(fidsArray) = 0
                      THEN NotifyFailure("No target FIDs provided",
                                         IF targetFids.array THEN 0 ELSE 1)
                      ELSE IF Len(loop.fidsToNotify) = 0
                      THEN NotifyFailure("All notifications rate limited", Len(fidsArray))
                      ELSE IF ~titleOk
                      THEN NotifyFailure("Cannot read properties of undefined",
                                         IF targetFids.array THEN Len(fidsArray) ELSE 1)
                      ELSE @]
        /\ UNCHANGED <<now, castFetch, storeVars, pointsVars, req, started, feed, rd, rankVars>>

\* The publish call answers or throws, and sendNotification returns.
PublishReturns(c, ok) ==
    /\ c \in notified.pending
    /\ notified' =
           [notified EXCEPT
              !.pending = @ \ {c},
              !.resp = IF ok
                       THEN [success |-> TRUE, message |-> "Notification sent successfully",
                             sent |-> c.sent, skipped |-> c.skipped]
                       ELSE NotifyFailure("Request failed", c.failed)]
    /\ UNCHANGED <<now, notificationCache, castFetch, storeVars, pointsVars, req, started,
                   feed, rd, rankVars>>

\* Time passes.
Tick(step) ==
    /\ notified.ticks < MaxTicks
    /\ now' = now + step
    /\ notified' = [notified EXCEPT !.ticks = @ + 1]
    /\ UNCHANGED <<notificationCache, castFetch, storeVars, pointsVars, req, started,
                   feed, rd, rankVars>>

NextNotify ==
    \/ \E t \in TargetInputs, type \in NotifyTypes, r \in RelatedFids, titleOk \in BOOLEAN :
           SendNotification(t, type, r, titleOk)
    \/ \E c \in notified.pending, ok \in BOOLEAN : PublishReturns(c, ok)
    \/ \E step \in ClockSteps : Tick(step)

SpecNotify == Init /\ [][NextNotify]_vars

\* C34: for each cache key, two hand-overs of a target to the publish call
\* are at least 30 seconds of clock time apart, whatever the order of the
\* sendNotification calls and whatever the sweep deleted.
C34_OnePublishPerKeyPerCooldown ==
    \A h1, h2 \in notified.handed :
        (h1.key = h2.key /\ h1 # h2 /\ h1.at <= h2.at)
            => h2.at - h1.at >= CooldownSeconds * 1000

\* C34 witness: a key was handed over twice, the sweep has deleted an entry,
\* and the rate limit has kept a fid out of a publish call.
C34_Witness ==
    /\ \E h1, h2 \in notified.handed : h1.key = h2.key /\ h1 # h2
    /\ notified.swept
    /\ notified.limited

----------------------------------------------------------------------------
(* personaService: fetchAllUserCasts.  One step is one await: the answer   *)
(* to the HTTP request of a page, the end of the wait before a retry, the  *)
(* end of the wait before the next page.  The API returns up to PageLimit  *)
(* casts a page (limit = 100 in the source).                               *)

PageLimit == 2                  \* casts a page
MaxCastsInputs == {0, 2, 4}     \* maxCasts (200 by default: two pages)
maxRetries == 3
InitialRetryDelay == 1000       \* ms

\* A message is the sequence of its words.
LowerWord(word) ==
    CASE word = "Rate" -> "rate"
      [] word = "Too" -> "too"
      [] word = "Many" -> "many"
      [] word = "Requests" -> "requests"
      [] word = "Internal" -> "internal"
      [] word = "HTTP" -> "http"
      [] OTHER -> word

\* message.toLowerCase()
toLowerCase(message) == [i \in DOMAIN message |-> LowerWord(message[i])]

\* message.includes(words)
includes(message, words) ==
    \E i \in 0..(Len(message) - Len(words)) :
        \A j \in DOMAIN words : message[i + j] = words[j]

NoStatus == 0                   \* error.status is undefined

\* The errors the request of a page throws: HTTP answers that are not ok,
\* with the message of the body or `HTTP ${status}`, a rejected fetch, and
\* a body that is no JSON.
FetchErrors ==
    {[status |-> 429, message |-> <<"HTTP", "429">>],
     [status |-> 500, message |-> <<"Rate", "limit", "exceeded">>],
     [status |-> 503, message |-> <<"Too", "Many", "Requests">>],
     [status |-> 500, message |-> <<"Internal", "error">>],
     [status |-> NoStatus, message |-> <<"fetch", "failed">>]}

\* Mutant: every error counts as a rate limit.
isRateLimitAlways(error) == TRUE

\* isRateLimit of the catch block
isRateLimit(error) ==
    \/ error.status = 429
    \/ includes(toLowerCase(error.message), <<"rate", "limit">>)
    \/ includes(toLowerCase(error.message), <<"too", "many", "requests">>)

\* The response times of a request, in ms
ResponseTimes == {100, 5000}

\* retryDelay after a successful request
DelayAfterSuccess(responseTime) ==
    IF responseTime > 2000
    THEN (IF responseTime \div 2 > 1500 THEN responseTime \div 2 ELSE 1500)
    ELSE InitialRetryDelay

\* The request of a page is sent: an attempt.
SendRequest(f) == [f EXCEPT !.pc = "request", !.attempts = @ + 1]

\* The head of the outer loop: a new page is requested while
\* allCasts.length < maxCasts, otherwise the casts are returned.
NextPage(f) ==
    IF f.allCasts < f.maxCasts
    THEN SendRequest([f EXCEPT !.retryCount = 0, !.pages = @ + 1,
                               !.attempts = 0, !.errors = <<>>, !.waits = <<>>])
    ELSE [f EXCEPT !.pc = "returned"]

fetchVarsUnchanged ==
    UNCHANGED <<now, notificationCache, notified, storeVars, pointsVars, req, started,
                feed, rd, rankVars>>

\* fetchAllUserCasts(fid, maxCasts) up to the first await
FetchBegin(maxCasts) ==
    /\ castFetch.pc = "idle"
    /\ castFetch' = NextPage([IdleFetch EXCEPT !.maxCasts = maxCasts,
                                               !.retryDelay = InitialRetryDelay])
    /\ fetchVarsUnchanged

\* The request is answered with a page of n casts, with or without a next
\* cursor: no cast or no cursor ends the fetch, otherwise the call waits
\* retryDelay before the next page.
FetchSucceeds(n, next, responseTime) ==
    /\ castFetch.pc = "request"
    /\ LET f == [castFetch EXCEPT !.retryDelay = DelayAfterSuccess(responseTime)]
       IN  castFetch' =
               IF n = 0 THEN [f EXCEPT !.pc = "returned"]
               ELSE IF ~next
               THEN [f EXCEPT !.pc = "returned", !.allCasts = @ + n, !.cursor = FALSE]
               ELSE [f EXCEPT !.pc = "page_wait", !.allCasts = @ + n, !.cursor = TRUE]
    /\ fetchVarsUnchanged

\* The request throws: a rate-limit error before the last attempt starts
\* the wait of retryDelay, any other error is thrown on.
FetchFails(error) ==
    /\ castFetch.pc = "request"
    /\ LET retryCount == castFetch.retryCount + 1
           f == [castFetch EXCEPT !.retryCount = retryCount,
                                  !.errors = Append(@, error)]
       IN  castFetch' =
               IF isRateLimit(error) /\ retryCount < maxRetries
               THEN [f EXCEPT !.pc = "retry_wait",
                              !.waits = Append(@, castFetch.retryDelay)]
               ELSE [f EXCEPT !.pc = "thrown"]
    /\ fetchVarsUnchanged

\* The wait before a retry ends: retryDelay *= 2, and the request is sent again.
RetryWaitEnds ==
    /\ castFetch.pc = "retry_wait"
    /\ castFetch' = SendRequest([castFetch EXCEPT !.retryDelay = @ * 2])
    /\ fetchVarsUnchanged

\* The wait between two pages ends.
PageWaitEnds ==
    /\ castFetch.pc = "page_wait"
    /\ castFetch' = NextPage(castFetch)
    /\ fetchVarsUnchanged

NextFetch ==
    \/ \E maxCasts \in MaxCastsInputs : FetchBegin(maxCasts)
    \/ \E n \in 0..PageLimit, next \in BOOLEAN, t \in ResponseTimes :
           FetchSucceeds(n, next, t)
    \/ \E error \in FetchErrors : FetchFails(error)
    \/ RetryWaitEnds
    \/ PageWaitEnds

SpecFetch == Init /\ [][NextFetch]_vars

\* Every request is answered and every wait ends.
SpecFetchFair == SpecFetch /\ WF_vars(NextFetch)

FetchEnded == castFetch.pc \in {"returned", "thrown"}

\* The errors that tell a rate limit: status 429, or a message that names a
\* rate limit or too many requests.
RateLimitErrors ==
    {[status |-> 429, message |-> <<"HTTP", "429">>],
     [status |-> 500, message |-> <<"Rate", "limit", "exceeded">>],
     [status |-> 503, message |-> <<"Too", "Many", "Requests">>]}

\* The protocol of the requests of the current page.
RetryProtocol ==
    LET f == castFetch
    IN  /\ f.attempts <= maxRetries
        /\ f.pc \in {"request", "retry_wait", "page_wait", "returned"}
               => \A i \in DOMAIN f.errors : f.errors[i] \in RateLimitErrors
        /\ f.pc = "request" => f.attempts = Len(f.errors) + 1 /\ Len(f.waits) = Len(f.errors)
        /\ f.pc = "retry_wait" => Len(f.waits) = Len(f.errors) /\ f.attempts = Len(f.errors)
        /\ \A i \in DOMAIN f.waits : i > 1 => f.waits[i] = 2 * f.waits[i - 1]
        /\ f.pc = "thrown"
               => /\ f.errors # <<>>
                  /\ \/ f.errors[Len(f.errors)] \notin RateLimitErrors
                     \/ Len(f.errors) = maxRetries
        /\ (f.errors # <<>> /\ (f.errors[Len(f.errors)] \notin RateLimitErrors
                                   \/ Len(f.errors) = maxRetries))
               => f.pc = "thrown"

\* C36: each page request is attempted at most 3 times; a new attempt follows
\* only a rate-limit error, after a wait that is twice the wait before; any
\* other error, or the third failed attempt, aborts the fetch with an error;
\* and the fetch always ends, returning or throwing.
C36_RetryProtocolAndTermination == []RetryProtocol /\ <>FetchEnded

\* C36 witness: the fetch was aborted by the third rate-limit error of its
\* second page, after two waits.
C36_Witness ==
    /\ castFetch.pc = "thrown"
    /\ castFetch.pages = 2
    /\ Len(castFetch.errors) = maxRetries
    /\ Len(castFetch.waits) = 2
    /\ castFetch.waits[2] = 2 * castFetch.waits[1]

====
